---- MODULE Spec2Model ----
(***************************************************************************)
(* Model of easybuild/framework/easyconfig/easyconfig.py: the EasyConfig   *)
(* class (parse, validation, hidden-dependency filtering, dependency       *)
(* resolution, keyed accessors, dump), resolve_template,                   *)
(* process_easyconfig with its cache, and robot_find_easyconfig.           *)
(*                                                                         *)
(* Python values are tagged records so that values of different Python     *)
(* types can be compared: None, Bool(b), Str(s), List(q), Dict(f).         *)
(* log.error / log.nosupport raise EasyBuildError: an operation that       *)
(* raises ends with pc = "error" and err holding the error.                *)
(*                                                                         *)
(* Each component has its own specification (SpecDep, SpecParse, ...);     *)
(* the variables a specification does not use stay at Idle.                *)
(***************************************************************************)
EXTENDS Integers, Sequences, FiniteSets, TLC

VARIABLES
    pc,                 \* position of the running operation
    err,                \* the EasyBuildError raised, or NoError
    \* ---- EasyConfig._parse_dependency
    owner_toolchain,    \* self['toolchain'] of the owning EasyConfig
    dep,                \* the dependency element passed in
    hidden_arg,         \* the 'hidden' argument
    dependency,         \* the dict returned
    \* ---- EasyConfig instance
    extra_options,      \* self.extra_options: (key, [default, doc, flag]) in items() order
    local_vars,         \* the raw mapping parser.get_config_dict() returns
    mandatory,          \* self.mandatory
    config,             \* self._config: parameter -> value (slot 0 of the triple)
    deprecated_log,     \* _log.deprecated calls so far: deprecated key -> count
    \* ---- locals of EasyConfig.filter_hidden_deps
    dep_mod_names,      \* full module names of the plain dependencies at entry
    faulty_deps,        \* visible names of the hidden dependencies found faulty
    hidden_idx,         \* index of the next hidden dependency of the for loop
    \* ---- process_easyconfig
    easyconfigs_cache,  \* _easyconfigs_cache: cache key -> reference of the cached list
    heap,               \* the objects allocated so far: reference -> object
    returned,           \* the results callers hold: [args, ref, own]
    calls,              \* number of process_easyconfig calls made
    \* ---- robot_find_easyconfig
    files,              \* the regular files of the file system, as absolute paths
    robot_path,         \* build_option('robot_path')
    easyconfig_files_cache,  \* _easyconfig_files_cache: (name, version) -> path
    robot_call,         \* the last robot_find_easyconfig call: its arguments, what it saw, its result
    \* ---- resolve_template
    tmpl_value,         \* the 'value' argument of resolve_template, a string as its characters
    tmpl_dict,          \* the template dictionary: key -> string
    resolved,           \* what resolve_template returned
    \* ---- dump() and the resolution of what it wrote
    observed,           \* (name, version, dependencies(), full module name) of the first resolution
    dumped,             \* the text dump() wrote: parameter -> source form of its value
    reobserved,         \* the same tuple for the resolution of the dumped text
    \* ---- keyed accesses of a parsed EasyConfig
    access,             \* the last keyed access: accessor, key, argument, self._config before, outcome
    accesses,           \* number of keyed accesses made
    \* ---- dependencies()
    build_filter_deps,        \* build_option('filter_deps'): a sequence of names, <<>> when not set
    enable_templating,  \* self.enable_templating
    template_values,    \* self.template_values
    deps_returned,      \* what dependencies() returned
    \* ---- copy()
    objects,            \* the mutable objects: id -> dict, [value, help, category] list, or list value
    ecs,                \* the EasyConfig instances: the id of each one's _config and what its own history gives
    ops,                \* the Set operations and in-place edits made
    \* ---- interleaved calls of process_easyconfig
    requests,           \* each caller's place in process_easyconfig, its arguments and its 'easyconfigs' list
    started,            \* the cache keys for which the loop of lines 884-939 was entered, in order
    \* ---- ActiveMNS()
    instances,          \* Singleton._instances: <<>> or ActiveMNS -> the instance stored
    mns_uses,           \* each caller's place in ActiveMNS(), and the instance its last call returned
    strategies,         \* the naming scheme objects constructed so far
    sel_mns,            \* get_module_naming_scheme(): the configured scheme name
    uses,               \* the ActiveMNS() calls begun
    \* ---- ActiveMNS naming queries
    naming_ec,          \* the easyconfig or dependency dict a name is derived for
    mns_query,          \* the last naming query: its method, what the scheme produced, what was returned
    \* ---- _validate
    validations,        \* self.validations: for 'moduleclass' and 'stop' the allowed values, or None
    validated,          \* the last _validate call: its attribute and whether it raised
    \* ---- the module identity of an EasyConfig
    ec_hidden,          \* self.hidden
    full_mod_name,      \* self.full_mod_name
    short_mod_name,     \* self.short_mod_name
    \* ---- the steps of EasyConfig.__init__
    build_validate,     \* build_option('validate')
    validate_arg,       \* the 'validate' argument of __init__
    steps,              \* the steps of __init__ begun, in order
    seen_deps,          \* self['dependencies'] as validate() found it
    \* ---- ActiveMNS.check_ec_type
    active_mns,         \* the active naming scheme: whether it needs toolchain details, the keys it needs
    eb_files,           \* the (name, full version) pairs robot_find_easyconfig finds a file for
    asked_ec,           \* the argument of a naming query: a dependency dict or an EasyConfig
    mns_call,           \* the last naming query: its method and what the scheme was given
    \* ---- process_easyconfig within check_ec_type
    eb_deps,            \* the easyconfig files found by the robot: software name -> names of its dependencies
    call_stack,         \* the process_easyconfig calls in progress, outermost first
    ec_keys,            \* the keys of _easyconfigs_cache
    \* ---- the accessors on the [value, help, category] lists
    slots,              \* self._config: parameter -> [value, help, category]
    set_call            \* the last keyed access: the accessor, its arguments and what it returned

depVars == <<owner_toolchain, dep, hidden_arg, dependency>>
ecVars == <<extra_options, local_vars, mandatory, config, deprecated_log>>
filterVars == <<dep_mod_names, faulty_deps, hidden_idx>>
cacheVars == <<easyconfigs_cache, heap, returned, calls>>
robotVars == <<files, robot_path, easyconfig_files_cache, robot_call>>
templateVars == <<tmpl_value, tmpl_dict, resolved>>
dumpVars == <<observed, dumped, reobserved>>
accessVars == <<access, accesses>>
depsVars == <<build_filter_deps, enable_templating, template_values, deps_returned>>
copyVars == <<objects, ecs, ops>>
raceVars == <<requests, started>>
mnsVars == <<instances, mns_uses, strategies, sel_mns, uses>>
namingVars == <<naming_ec, mns_query>>
validVars == <<validations, validated>>
identVars == <<ec_hidden, full_mod_name, short_mod_name>>
stepVars == <<build_validate, validate_arg, steps, seen_deps>>
escVars == <<active_mns, eb_files, asked_ec, mns_call>>
recurVars == <<eb_deps, call_stack, ec_keys>>
setVars == <<slots, set_call>>
vars == <<pc, err, depVars, ecVars, filterVars, cacheVars, robotVars, templateVars, dumpVars, accessVars, depsVars, copyVars, raceVars, mnsVars, namingVars, validVars, identVars, stepVars, escVars, recurVars, setVars>>

\* the variables of a component no operation of which is running
IdleDep == owner_toolchain = "idle" /\ dep = "idle" /\ hidden_arg = "idle" /\ dependency = "idle"
IdleEc ==
    /\ extra_options = "idle" /\ local_vars = "idle" /\ mandatory = "idle"
    /\ config = "idle" /\ deprecated_log = "idle"
IdleFilter == dep_mod_names = "idle" /\ faulty_deps = "idle" /\ hidden_idx = "idle"
IdleCache ==
    easyconfigs_cache = "idle" /\ heap = "idle" /\ returned = "idle" /\ calls = "idle"
IdleRobot ==
    files = "idle" /\ robot_path = "idle" /\ easyconfig_files_cache = "idle" /\ robot_call = "idle"
IdleTemplate ==
    tmpl_value = "idle" /\ tmpl_dict = "idle" /\ resolved = "idle"
IdleDump ==
    observed = "idle" /\ dumped = "idle" /\ reobserved = "idle"
IdleAccess ==
    access = "idle" /\ accesses = "idle"
IdleDeps ==
    build_filter_deps = "idle" /\ enable_templating = "idle" /\ template_values = "idle" /\ deps_returned = "idle"
IdleCopy ==
    objects = "idle" /\ ecs = "idle" /\ ops = "idle"
IdleRace ==
    requests = "idle" /\ started = "idle"
IdleMns ==
    instances = "idle" /\ mns_uses = "idle" /\ strategies = "idle" /\ sel_mns = "idle" /\ uses = "idle"
IdleNaming ==
    naming_ec = "idle" /\ mns_query = "idle"
IdleValid ==
    validations = "idle" /\ validated = "idle"
IdleIdent ==
    ec_hidden = "idle" /\ full_mod_name = "idle" /\ short_mod_name = "idle"
IdleSteps ==
    build_validate = "idle" /\ validate_arg = "idle" /\ steps = "idle" /\ seen_deps = "idle"
IdleEsc ==
    active_mns = "idle" /\ eb_files = "idle" /\ asked_ec = "idle" /\ mns_call = "idle"
IdleRecur ==
    eb_deps = "idle" /\ call_stack = "idle" /\ ec_keys = "idle"
IdleSet ==
    slots = "idle" /\ set_call = "idle"

\* for each specification, the variables outside it
outsideDep == <<ecVars, filterVars, cacheVars, robotVars, templateVars, dumpVars, accessVars, depsVars, copyVars, raceVars, mnsVars, namingVars, validVars, identVars, stepVars, escVars, recurVars, setVars>>
IdleOutsideDep == IdleEc /\ IdleFilter /\ IdleCache /\ IdleRobot /\ IdleTemplate /\ IdleDump /\ IdleAccess /\ IdleDeps /\ IdleCopy /\ IdleRace /\ IdleMns /\ IdleNaming /\ IdleValid /\ IdleIdent /\ IdleSteps /\ IdleEsc /\ IdleRecur /\ IdleSet
outsideParse == <<depVars, filterVars, cacheVars, robotVars, templateVars, dumpVars, accessVars, depsVars, copyVars, raceVars, mnsVars, namingVars, validVars, identVars, stepVars, escVars, recurVars, setVars>>
IdleOutsideParse == IdleDep /\ IdleFilter /\ IdleCache /\ IdleRobot /\ IdleTemplate /\ IdleDump /\ IdleAccess /\ IdleDeps /\ IdleCopy /\ IdleRace /\ IdleMns /\ IdleNaming /\ IdleValid /\ IdleIdent /\ IdleSteps /\ IdleEsc /\ IdleRecur /\ IdleSet
outsideIter == <<depVars, filterVars, cacheVars, extra_options, mandatory, deprecated_log, robotVars, templateVars, dumpVars, accessVars, depsVars, copyVars, raceVars, mnsVars, namingVars, validVars, identVars, stepVars, escVars, recurVars, setVars>>
IdleOutsideIter ==
    /\ IdleDep /\ IdleFilter /\ IdleCache /\ extra_options = "idle"
    /\ mandatory = "idle" /\ deprecated_log = "idle"
    /\ IdleRobot
    /\ IdleTemplate
    /\ IdleDump
    /\ IdleAccess
    /\ IdleDeps
    /\ IdleCopy
    /\ IdleRace
    /\ IdleMns
    /\ IdleNaming
    /\ IdleValid
    /\ IdleIdent
    /\ IdleSteps
    /\ IdleEsc
    /\ IdleRecur
    /\ IdleSet
outsideFilter == <<depVars, cacheVars, extra_options, mandatory, deprecated_log, robotVars, templateVars, dumpVars, accessVars, depsVars, copyVars, raceVars, mnsVars, namingVars, validVars, identVars, stepVars, escVars, recurVars, setVars>>
IdleOutsideFilter ==
    /\ IdleDep /\ IdleCache
    /\ extra_options = "idle" /\ mandatory = "idle" /\ deprecated_log = "idle"
    /\ IdleRobot
    /\ IdleTemplate
    /\ IdleDump
    /\ IdleAccess
    /\ IdleDeps
    /\ IdleCopy
    /\ IdleRace
    /\ IdleMns
    /\ IdleNaming
    /\ IdleValid
    /\ IdleIdent
    /\ IdleSteps
    /\ IdleEsc
    /\ IdleRecur
    /\ IdleSet
outsideCache == <<depVars, ecVars, filterVars, robotVars, templateVars, dumpVars, accessVars, depsVars, copyVars, raceVars, mnsVars, namingVars, validVars, identVars, stepVars, escVars, recurVars, setVars>>
IdleOutsideCache == IdleDep /\ IdleEc /\ IdleFilter /\ IdleRobot /\ IdleTemplate /\ IdleDump /\ IdleAccess /\ IdleDeps /\ IdleCopy /\ IdleRace /\ IdleMns /\ IdleNaming /\ IdleValid /\ IdleIdent /\ IdleSteps /\ IdleEsc /\ IdleRecur /\ IdleSet
outsideRobot == <<depVars, ecVars, filterVars, cacheVars, templateVars, dumpVars, accessVars, depsVars, copyVars, raceVars, mnsVars, namingVars, validVars, identVars, stepVars, escVars, recurVars, setVars>>
IdleOutsideRobot ==
    IdleDep /\ IdleEc /\ IdleFilter /\ IdleCache
    /\ IdleTemplate
    /\ IdleDump
    /\ IdleAccess
    /\ IdleDeps
    /\ IdleCopy
    /\ IdleRace
    /\ IdleMns
    /\ IdleNaming
    /\ IdleValid
    /\ IdleIdent
    /\ IdleSteps
    /\ IdleEsc
    /\ IdleRecur
    /\ IdleSet
outsideTemplate == <<depVars, ecVars, filterVars, cacheVars, robotVars, dumpVars, accessVars, depsVars, copyVars, raceVars, mnsVars, namingVars, validVars, identVars, stepVars, escVars, recurVars, setVars>>
IdleOutsideTemplate ==
    IdleDep /\ IdleEc /\ IdleFilter /\ IdleCache /\ IdleRobot
    /\ IdleDump
    /\ IdleAccess
    /\ IdleDeps
    /\ IdleCopy
    /\ IdleRace
    /\ IdleMns
    /\ IdleNaming
    /\ IdleValid
    /\ IdleIdent
    /\ IdleSteps
    /\ IdleEsc
    /\ IdleRecur
    /\ IdleSet
outsideDump == <<depVars, filterVars, cacheVars, robotVars, templateVars, accessVars, depsVars, copyVars, raceVars, mnsVars, namingVars, validVars, identVars, stepVars, escVars, recurVars, setVars>>
IdleOutsideDump ==
    IdleDep /\ IdleFilter /\ IdleCache /\ IdleRobot /\ IdleTemplate
    /\ IdleAccess
    /\ IdleDeps
    /\ IdleCopy
    /\ IdleRace
    /\ IdleMns
    /\ IdleNaming
    /\ IdleValid
    /\ IdleIdent
    /\ IdleSteps
    /\ IdleEsc
    /\ IdleRecur
    /\ IdleSet
outsideAccess ==
    <<depVars, filterVars, cacheVars, robotVars, templateVars, dumpVars, extra_options,
      local_vars, mandatory, depsVars, copyVars, raceVars, mnsVars, namingVars, validVars, identVars, stepVars, escVars, recurVars, setVars>>
IdleOutsideAccess ==
    /\ IdleDep /\ IdleFilter /\ IdleCache /\ IdleRobot /\ IdleTemplate /\ IdleDump
    /\ extra_options = "idle" /\ local_vars = "idle" /\ mandatory = "idle"
    /\ IdleDeps
    /\ IdleCopy
    /\ IdleRace
    /\ IdleMns
    /\ IdleNaming
    /\ IdleValid
    /\ IdleIdent
    /\ IdleSteps
    /\ IdleEsc
    /\ IdleRecur
    /\ IdleSet
outsideDeps == <<depVars, filterVars, cacheVars, robotVars, templateVars, dumpVars, accessVars, copyVars, raceVars, mnsVars, namingVars, validVars, identVars, stepVars, escVars, recurVars, setVars>>
IdleOutsideDeps ==
    IdleDep /\ IdleFilter /\ IdleCache /\ IdleRobot /\ IdleTemplate /\ IdleDump /\ IdleAccess
    /\ IdleCopy
    /\ IdleRace
    /\ IdleMns
    /\ IdleNaming
    /\ IdleValid
    /\ IdleIdent
    /\ IdleSteps
    /\ IdleEsc
    /\ IdleRecur
    /\ IdleSet
outsideReplaced == <<depVars, filterVars, cacheVars, robotVars, templateVars, dumpVars, depsVars, copyVars, raceVars, mnsVars, namingVars, validVars, identVars, stepVars, escVars, recurVars, setVars>>
IdleOutsideReplaced ==
    IdleDep /\ IdleFilter /\ IdleCache /\ IdleRobot /\ IdleTemplate /\ IdleDump
    /\ IdleDeps
    /\ IdleCopy
    /\ IdleRace
    /\ IdleMns
    /\ IdleNaming
    /\ IdleValid
    /\ IdleIdent
    /\ IdleSteps
    /\ IdleEsc
    /\ IdleRecur
    /\ IdleSet
outsideCopy == <<depVars, ecVars, filterVars, cacheVars, robotVars, templateVars, dumpVars, accessVars, depsVars, raceVars, mnsVars, namingVars, validVars, identVars, stepVars, escVars, recurVars, setVars>>
IdleOutsideCopy ==
    IdleDep /\ IdleEc /\ IdleFilter /\ IdleCache /\ IdleRobot /\ IdleTemplate /\ IdleDump /\ IdleAccess /\ IdleDeps
    /\ IdleRace
    /\ IdleMns
    /\ IdleNaming
    /\ IdleValid
    /\ IdleIdent
    /\ IdleSteps
    /\ IdleEsc
    /\ IdleRecur
    /\ IdleSet
outsideRace == <<depVars, ecVars, filterVars, robotVars, templateVars, dumpVars, accessVars, depsVars, copyVars, mnsVars, namingVars, validVars, identVars, stepVars, escVars, recurVars, setVars>>
IdleOutsideRace ==
    IdleDep /\ IdleEc /\ IdleFilter /\ IdleRobot /\ IdleTemplate /\ IdleDump /\ IdleAccess /\ IdleDeps /\ IdleCopy
    /\ IdleMns
    /\ IdleNaming
    /\ IdleValid
    /\ IdleIdent
    /\ IdleSteps
    /\ IdleEsc
    /\ IdleRecur
    /\ IdleSet
outsideMns == <<depVars, ecVars, filterVars, cacheVars, robotVars, templateVars, dumpVars, accessVars, depsVars, copyVars, raceVars, namingVars, validVars, identVars, stepVars, escVars, recurVars, setVars>>
IdleOutsideMns ==
    IdleDep /\ IdleEc /\ IdleFilter /\ IdleCache /\ IdleRobot /\ IdleTemplate /\ IdleDump /\ IdleAccess /\ IdleDeps /\ IdleCopy /\ IdleRace
    /\ IdleNaming
    /\ IdleValid
    /\ IdleIdent
    /\ IdleSteps
    /\ IdleEsc
    /\ IdleRecur
    /\ IdleSet
outsideNaming == <<depVars, ecVars, filterVars, cacheVars, robotVars, templateVars, dumpVars, accessVars, depsVars, copyVars, raceVars, mnsVars, validVars, identVars, stepVars, escVars, recurVars, setVars>>
IdleOutsideNaming ==
    IdleDep /\ IdleEc /\ IdleFilter /\ IdleCache /\ IdleRobot /\ IdleTemplate /\ IdleDump /\ IdleAccess /\ IdleDeps /\ IdleCopy /\ IdleRace /\ IdleMns
    /\ IdleValid
    /\ IdleIdent
    /\ IdleSteps
    /\ IdleEsc
    /\ IdleRecur
    /\ IdleSet
outsideValid == <<depVars, filterVars, cacheVars, robotVars, templateVars, dumpVars, accessVars, depsVars, copyVars, raceVars, mnsVars, namingVars, identVars, stepVars, escVars, recurVars, setVars>>
IdleOutsideValid ==
    IdleDep /\ IdleFilter /\ IdleCache /\ IdleRobot /\ IdleTemplate /\ IdleDump /\ IdleAccess /\ IdleDeps /\ IdleCopy /\ IdleRace /\ IdleMns /\ IdleNaming
    /\ IdleIdent
    /\ IdleSteps
    /\ IdleEsc
    /\ IdleRecur
    /\ IdleSet
outsideIdent == <<depVars, filterVars, cacheVars, robotVars, templateVars, dumpVars, accessVars, depsVars, copyVars, raceVars, mnsVars, namingVars, validVars, stepVars, escVars, recurVars, setVars>>
IdleOutsideIdent ==
    IdleDep /\ IdleFilter /\ IdleCache /\ IdleRobot /\ IdleTemplate /\ IdleDump /\ IdleAccess /\ IdleDeps /\ IdleCopy /\ IdleRace /\ IdleMns /\ IdleNaming /\ IdleValid
    /\ IdleSteps
    /\ IdleEsc
    /\ IdleRecur
    /\ IdleSet
outsideSteps == <<depVars, filterVars, cacheVars, robotVars, templateVars, dumpVars, accessVars, depsVars, copyVars, raceVars, mnsVars, namingVars, validVars, escVars, recurVars, setVars>>
IdleOutsideSteps ==
    IdleDep /\ IdleFilter /\ IdleCache /\ IdleRobot /\ IdleTemplate /\ IdleDump /\ IdleAccess /\ IdleDeps /\ IdleCopy /\ IdleRace /\ IdleMns /\ IdleNaming /\ IdleValid
    /\ IdleEsc
    /\ IdleRecur
    /\ IdleSet
outsideEsc == <<depVars, ecVars, filterVars, cacheVars, robotVars, templateVars, dumpVars, accessVars, depsVars, copyVars, raceVars, mnsVars, namingVars, validVars, identVars, stepVars, recurVars, setVars>>
IdleOutsideEsc ==
    IdleDep /\ IdleEc /\ IdleFilter /\ IdleCache /\ IdleRobot /\ IdleTemplate /\ IdleDump /\ IdleAccess /\ IdleDeps /\ IdleCopy /\ IdleRace /\ IdleMns /\ IdleNaming /\ IdleValid /\ IdleIdent /\ IdleSteps
    /\ IdleRecur
    /\ IdleSet
outsideRecur == <<depVars, ecVars, filterVars, cacheVars, robotVars, templateVars, dumpVars, accessVars, depsVars, copyVars, raceVars, mnsVars, namingVars, validVars, identVars, stepVars, escVars, setVars>>
IdleOutsideRecur ==
    IdleDep /\ IdleEc /\ IdleFilter /\ IdleCache /\ IdleRobot /\ IdleTemplate /\ IdleDump /\ IdleAccess /\ IdleDeps /\ IdleCopy /\ IdleRace /\ IdleMns /\ IdleNaming /\ IdleValid /\ IdleIdent /\ IdleSteps /\ IdleEsc
    /\ IdleSet
outsideSet == <<depVars, ecVars, filterVars, cacheVars, robotVars, templateVars, dumpVars, accessVars, copyVars, raceVars, mnsVars, namingVars, validVars, build_filter_deps, deps_returned, stepVars, escVars, recurVars>>
IdleOutsideSet ==
    IdleDep /\ IdleEc /\ IdleFilter /\ IdleCache /\ IdleRobot /\ IdleTemplate /\ IdleDump /\ IdleAccess /\ IdleCopy /\ IdleRace /\ IdleMns /\ IdleNaming /\ IdleValid /\ IdleSteps /\ IdleEsc /\ IdleRecur /\ build_filter_deps = "idle" /\ deps_returned = "idle"

NoError == [kind |-> "none"]
Error(kind, args) == [kind |-> kind, args |-> args]

(***************************************************************************)
(* Python values                                                           *)
(***************************************************************************)
None == [t |-> "None"]
Bool(b) == [t |-> "bool", v |-> b]
Str(s) == [t |-> "str", v |-> s]
List(q) == [t |-> "list", v |-> q]
Dict(f) == [t |-> "dict", v |-> f]

\* dict.update(): the entries of f override those of d
Update(d, f) == [k \in DOMAIN d \cup DOMAIN f |-> IF k \in DOMAIN f THEN f[k] ELSE d[k]]

Min(a, b) == IF a < b THEN a ELSE b

\* all sequences of exactly n elements whose i-th element is in D(i)
\* (D is a function from positions to sets)
RECURSIVE SeqsOf(_, _)
SeqsOf(n, D) == IF n = 0 THEN {<<>>}
                ELSE {Append(q, x) : q \in SeqsOf(n - 1, D), x \in D[n]}

RECURSIVE SeqsUpTo(_, _)
SeqsUpTo(n, D) == IF n = 0 THEN {<<>>} ELSE SeqsOf(n, D) \cup SeqsUpTo(n - 1, D)

(***************************************************************************)
(* Toolchains and the module naming scheme                                 *)
(***************************************************************************)
DUMMY_TOOLCHAIN_NAME == "dummy"
DUMMY_TOOLCHAIN_VERSION == "dummy"
DummyToolchain == [name |-> DUMMY_TOOLCHAIN_NAME, version |-> DUMMY_TOOLCHAIN_VERSION]

\* det_full_ec_version: version, "-tcname-tcversion" unless the toolchain is the
\* dummy one, with prefix and suffix, empty parts left out. A string is the
\* sequence of its parts.
DetFullEcVersion(version, tc, prefix, suffix) ==
    LET ecver == IF tc.name = DUMMY_TOOLCHAIN_NAME THEN <<version>>
                 ELSE <<version, "-", tc.name, "-", tc.version>>
    IN  SelectSeq(<<prefix>> \o ecver \o <<suffix>>, LAMBDA x : x # "")

\* EasyBuildMNS.det_full_module_name: os.path.join(name, full version); a module
\* name is the sequence of its path segments
MnsDetFullModuleName(ec) ==
    << <<ec.name>>, DetFullEcVersion(ec.version, ec.toolchain, "", ec.versionsuffix) >>

\* EasyBuildMNS.det_short_module_name is the full module name
MnsDetShortModuleName(ec) == MnsDetFullModuleName(ec)

\* is_valid_module_name: non-empty relative path
IsValidModuleName(mod_name) ==
    /\ Len(mod_name) > 0
    /\ \A i \in 1..Len(mod_name) : mod_name[i] # <<>>

\* det_hidden_modname: '.' in front of the last path segment
DetHiddenModname(mod_name) ==
    [mod_name EXCEPT ![Len(mod_name)] = <<".">> \o @]

\* the name made hidden whenever the hidden flag is set, force_visible or not
MutDetModuleNameWithIgnoresForce(mns_method, ec, force_visible) ==
    LET mod_name == IF mns_method = "det_full_module_name"
                    THEN MnsDetFullModuleName(ec) ELSE MnsDetShortModuleName(ec)
    IN  IF ~IsValidModuleName(mod_name)
        THEN [ok |-> FALSE, name |-> mod_name]
        ELSE [ok |-> TRUE, name |-> IF ec.hidden THEN DetHiddenModname(mod_name) ELSE mod_name]

\* ActiveMNS._det_module_name_with for a dependency dict or an EasyConfig
\* [ok, name]; the name is hidden-mangled when ec.hidden and not force_visible
DetModuleNameWith(mns_method, ec, force_visible) ==
    LET mod_name == IF mns_method = "det_full_module_name"
                    THEN MnsDetFullModuleName(ec) ELSE MnsDetShortModuleName(ec)
    IN  IF ~IsValidModuleName(mod_name)
        THEN [ok |-> FALSE, name |-> mod_name]
        ELSE [ok |-> TRUE,
              name |-> IF ec.hidden /\ ~force_visible
                       THEN DetHiddenModname(mod_name) ELSE mod_name]

DetFullModuleName(ec, force_visible) ==
    DetModuleNameWith("det_full_module_name", ec, force_visible)

DetShortModuleName(ec, force_visible) ==
    DetModuleNameWith("det_short_module_name", ec, force_visible)

(***************************************************************************)
(* EasyConfig._parse_dependency                                            *)
(***************************************************************************)
DepAttr == <<"name", "version", "versionsuffix", "toolchain">>

DepDefaults(hidden) ==
    [dummy |-> Bool(FALSE), full_mod_name |-> <<>>, short_mod_name |-> <<>>,
     name |-> "", toolchain |-> None, version |-> "", versionsuffix |-> "",
     hidden |-> hidden]

\* lines 548-567: overlay the fields of the element on the defaults
DepOverlay(d, hidden) ==
    LET dflt == DepDefaults(hidden)
    IN  CASE d.t = "dict" ->
               LET u == Update(dflt, d.v)
               IN  [ok |-> TRUE,
                    d |-> IF "dummy" \in DOMAIN d.v /\ "toolchain" \notin DOMAIN d.v
                          THEN [u EXCEPT !.toolchain = d.v.dummy] ELSE u]
          [] d.t = "Dependency" ->
               LET u1 == [dflt EXCEPT !.name = d.name, !.version = d.version]
                   u2 == IF d.versionsuffix.t # "None"
                         THEN [u1 EXCEPT !.versionsuffix = d.versionsuffix.v] ELSE u1
               IN  [ok |-> TRUE,
                    d |-> IF d.toolchain.t # "None"
                          THEN [u2 EXCEPT !.toolchain = d.toolchain] ELSE u2]
          [] d.t = "list" ->
               LET n == Min(Len(DepAttr), Len(d.v))
                   z == [k \in {DepAttr[i] : i \in 1..n} |->
                            d.v[CHOOSE i \in 1..n : DepAttr[i] = k]]
               IN  [ok |-> TRUE, d |-> Update(dflt, z)]
          [] OTHER -> [ok |-> FALSE, d |-> dflt]

MutResolveToolchainNoInherit(tc_spec, owner) ==
    IF tc_spec.t = "None" \/ (tc_spec.t = "bool" /\ tc_spec.v)
    THEN [ok |-> TRUE, tc |-> DummyToolchain]
    ELSE IF tc_spec.t = "list" /\ Len(tc_spec.v) = 2
    THEN [ok |-> TRUE, tc |-> [name |-> tc_spec.v[1], version |-> tc_spec.v[2]]]
    ELSE IF tc_spec.t = "dict" /\ {"name", "version"} \subseteq DOMAIN tc_spec.v
    THEN [ok |-> TRUE, tc |-> tc_spec.v]
    ELSE [ok |-> FALSE, tc |-> owner]

\* the boolean False taken as 'no toolchain of its own'
MutResolveToolchainFalseInherits(tc_spec, owner) ==
    IF tc_spec.t = "None" \/ tc_spec = Bool(FALSE) THEN [ok |-> TRUE, tc |-> owner]
    ELSE IF tc_spec.t = "bool"
    THEN [ok |-> TRUE, tc |-> DummyToolchain]
    ELSE IF tc_spec.t = "list" /\ Len(tc_spec.v) = 2
    THEN [ok |-> TRUE, tc |-> [name |-> tc_spec.v[1], version |-> tc_spec.v[2]]]
    ELSE IF tc_spec.t = "dict" /\ {"name", "version"} \subseteq DOMAIN tc_spec.v
    THEN [ok |-> TRUE, tc |-> tc_spec.v]
    ELSE [ok |-> FALSE, tc |-> owner]

\* lines 569-590: the dependency inherits the toolchain unless it has its own
ResolveToolchain(tc_spec, owner) ==
    IF tc_spec.t = "None" THEN [ok |-> TRUE, tc |-> owner]
    ELSE IF tc_spec.t = "bool" /\ tc_spec.v
    THEN [ok |-> TRUE, tc |-> DummyToolchain]
    ELSE IF tc_spec.t = "list"
    THEN IF Len(tc_spec.v) = 2
         THEN [ok |-> TRUE, tc |-> [name |-> tc_spec.v[1], version |-> tc_spec.v[2]]]
         ELSE [ok |-> FALSE, tc |-> owner]
    ELSE IF tc_spec.t = "dict"
    THEN IF "name" \in DOMAIN tc_spec.v /\ "version" \in DOMAIN tc_spec.v
         THEN [ok |-> TRUE, tc |-> tc_spec.v]
         ELSE [ok |-> FALSE, tc |-> owner]
    ELSE [ok |-> FALSE, tc |-> owner]

\* the 'dummy' value of the element is kept
MutParseDependencyKeepsDummy(d, hidden, owner) ==
    LET o == DepOverlay(d, hidden)
        r == ResolveToolchain(o.d.toolchain, owner)
        d1 == [o.d EXCEPT !.toolchain = r.tc,
                          !.dummy = IF d.t = "dict" /\ "dummy" \in DOMAIN d.v
                                    THEN d.v.dummy = Bool(TRUE)
                                    ELSE r.tc.name = DUMMY_TOOLCHAIN_NAME]
        short == DetShortModuleName(d1, FALSE)
        full == DetFullModuleName(d1, FALSE)
    IN  IF ~o.ok THEN [err |-> Error("unsupported dependency type", d), d |-> None]
        ELSE IF ~r.ok THEN [err |-> Error("unsupported toolchain spec", o.d.toolchain), d |-> None]
        ELSE IF d1.name = "" THEN [err |-> Error("dependency without name", d), d |-> None]
        ELSE IF d1.version = "" THEN [err |-> Error("dependency without version", d), d |-> None]
        ELSE IF ~short.ok THEN [err |-> Error("invalid module name", short.name), d |-> None]
        ELSE IF ~full.ok THEN [err |-> Error("invalid module name", full.name), d |-> None]
        ELSE [err |-> NoError,
              d |-> [d1 EXCEPT !.short_mod_name = short.name, !.full_mod_name = full.name]]

\* the whole of _parse_dependency: [err, d]; d is the dict returned when
\* err = NoError
ParseDependency(d, hidden, owner) ==
    LET o == DepOverlay(d, hidden)
        r == ResolveToolchain(o.d.toolchain, owner)
        d1 == [o.d EXCEPT !.toolchain = r.tc,
                          !.dummy = (r.tc.name = DUMMY_TOOLCHAIN_NAME)]
        short == DetShortModuleName(d1, FALSE)
        full == DetFullModuleName(d1, FALSE)
    IN  IF ~o.ok THEN [err |-> Error("unsupported dependency type", d), d |-> None]
        ELSE IF ~r.ok THEN [err |-> Error("unsupported toolchain spec", o.d.toolchain), d |-> None]
        ELSE IF d1.name = "" THEN [err |-> Error("dependency without name", d), d |-> None]
        ELSE IF d1.version = "" THEN [err |-> Error("dependency without version", d), d |-> None]
        ELSE IF ~short.ok THEN [err |-> Error("invalid module name", short.name), d |-> None]
        ELSE IF ~full.ok THEN [err |-> Error("invalid module name", full.name), d |-> None]
        ELSE [err |-> NoError,
              d |-> [d1 EXCEPT !.short_mod_name = short.name, !.full_mod_name = full.name]]

(***************************************************************************)
(* Inputs of _parse_dependency                                             *)
(***************************************************************************)
MaxTcListLen == 3
MaxDepListLen == 4

TcWords == {"gcc", "4.8"}
TcWordAt == [i \in 1..MaxTcListLen |-> TcWords]

\* partial functions from the keys in K to the values V[k]
RECURSIVE PartialDicts(_, _)
PartialDicts(K, V) ==
    IF K = {} THEN {<<>>}
    ELSE LET k == CHOOSE x \in K : TRUE
             rest == PartialDicts(K \ {k}, V)
         IN  rest \cup {Update(f, [j \in {k} |-> v]) : f \in rest, v \in V[k]}

TcDictValue == [name |-> {"gcc", DUMMY_TOOLCHAIN_NAME}, version |-> {"4.8"}]

\* the values a 'toolchain' field can hold
TcSpecValues ==
    {None, Bool(TRUE), Bool(FALSE), Str("gcc")}
    \cup {List(q) : q \in SeqsUpTo(MaxTcListLen, TcWordAt)}
    \cup {Dict(f) : f \in PartialDicts({"name", "version"}, TcDictValue)}

DepFieldValue ==
    [name |-> {"", "a"}, version |-> {"", "1"}, versionsuffix |-> {"-s"},
     toolchain |-> TcSpecValues, dummy |-> {None, Bool(TRUE), Bool(FALSE)}]

DepItemAt ==
    [i \in 1..MaxDepListLen |->
        CASE i = 1 -> {"", "a"}
          [] i = 2 -> {"", "1"}
          [] i = 3 -> {"", "-s"}
          [] i = 4 -> TcSpecValues
          [] OTHER -> {Str("extra")}]

DepElements ==
    {Dict(f) : f \in PartialDicts({"name", "version", "versionsuffix", "toolchain", "dummy"},
                                  DepFieldValue)}
    \cup {List(q) : q \in SeqsUpTo(MaxDepListLen, DepItemAt)}
    \cup {[t |-> "Dependency", name |-> n, version |-> v, versionsuffix |-> s, toolchain |-> tc] :
            n \in {"a"}, v \in {"", "1"}, s \in {None, Str("-s")}, tc \in TcSpecValues}
    \cup {Str("a/1")}

OwnerToolchains ==
    {[name |-> "gcc", version |-> "4.8"], [name |-> "intel", version |-> "2015a"], DummyToolchain}

(***************************************************************************)
(* SpecDep: one call of _parse_dependency                                  *)
(***************************************************************************)
InitDep ==
    /\ pc = "call"
    /\ err = NoError
    /\ owner_toolchain \in OwnerToolchains
    /\ dep \in DepElements
    /\ hidden_arg \in BOOLEAN
    /\ dependency = None
    /\ IdleOutsideDep

ParseDependencyCall ==
    /\ pc = "call"
    /\ LET r == ParseDependency(dep, hidden_arg, owner_toolchain)
       IN  /\ err' = r.err
           /\ dependency' = r.d
           /\ pc' = IF r.err = NoError THEN "done" ELSE "error"
    /\ UNCHANGED <<owner_toolchain, dep, hidden_arg, outsideDep>>

NextDep == ParseDependencyCall

SpecDep == InitDep /\ [][NextDep]_vars

(***************************************************************************)
(* Claims about _parse_dependency                                          *)
(***************************************************************************)
\* the toolchain the element declares, None when it declares none
DeclaredToolchain(d) ==
    CASE d.t = "dict" -> IF "toolchain" \in DOMAIN d.v THEN d.v.toolchain ELSE None
      [] d.t = "Dependency" -> d.toolchain
      [] d.t = "list" -> IF Len(d.v) >= 4 THEN d.v[4] ELSE None
      [] OTHER -> None

HasLegacyDummy(d) == d.t = "dict" /\ "dummy" \in DOMAIN d.v

\* C2 as stated: a resolved dependency that declares no toolchain has the owner's
\* toolchain, and one that declares toolchain True has the dummy toolchain
C2_AsStated ==
    pc = "done" =>
        /\ DeclaredToolchain(dep).t = "None" => dependency.toolchain = owner_toolchain
        /\ DeclaredToolchain(dep) = Bool(TRUE) => dependency.toolchain = DummyToolchain

\* C2 amended: a resolved dependency that declares no toolchain and (being a
\* mapping) carries no legacy 'dummy' field has the owner's toolchain name and
\* version; one that declares toolchain True has the dummy toolchain, whatever
\* the owner's toolchain is
C2_ToolchainInheritance ==
    pc = "done" =>
        /\ (DeclaredToolchain(dep).t = "None" /\ ~HasLegacyDummy(dep)) =>
              /\ dependency.toolchain.name = owner_toolchain.name
              /\ dependency.toolchain.version = owner_toolchain.version
        /\ DeclaredToolchain(dep) = Bool(TRUE) =>
              /\ dependency.toolchain.name = DUMMY_TOOLCHAIN_NAME
              /\ dependency.toolchain.version = DUMMY_TOOLCHAIN_VERSION

C2_Witness ==
    /\ pc = "done"
    /\ dep.t = "list" /\ Len(dep.v) = 2
    /\ owner_toolchain.name = "gcc"
    /\ dependency.toolchain = owner_toolchain

\* the value the element gives its toolchain field: for a mapping without
\* 'toolchain' the value of its legacy 'dummy' field
ToolchainField(d) ==
    IF d.t = "dict" /\ "toolchain" \notin DOMAIN d.v /\ "dummy" \in DOMAIN d.v
    THEN d.v.dummy ELSE DeclaredToolchain(d)

\* the three shapes: True, a list of two, a mapping with 'name' and 'version'
AcceptedToolchainShape(tc) ==
    \/ tc = Bool(TRUE)
    \/ tc.t = "list" /\ Len(tc.v) = 2
    \/ tc.t = "dict" /\ {"name", "version"} \subseteq DOMAIN tc.v

\* the toolchain an accepted shape stands for
ShapeToolchain(tc) ==
    IF tc.t = "bool" THEN DummyToolchain
    ELSE IF tc.t = "list" THEN [name |-> tc.v[1], version |-> tc.v[2]]
    ELSE tc.v

\* C22: a toolchain field that is present (not None) is accepted exactly when it
\* is True, a list of two elements or a mapping with 'name' and 'version', and
\* gives that toolchain; any other present value, False included, fails with
\* the unsupported-toolchain-spec error; a mapping with 'dummy' and without
\* 'toolchain' is handled as if 'toolchain' held the 'dummy' value
C22_ToolchainShapes ==
    (pc \in {"done", "error"} /\ dep.t \in {"dict", "list", "Dependency"}
        /\ ToolchainField(dep).t # "None") =>
        /\ AcceptedToolchainShape(ToolchainField(dep)) =>
              /\ err.kind # "unsupported toolchain spec"
              /\ pc = "done" => dependency.toolchain = ShapeToolchain(ToolchainField(dep))
        /\ ~AcceptedToolchainShape(ToolchainField(dep)) =>
              /\ pc = "error"
              /\ err.kind = "unsupported toolchain spec"

\* a mapping with 'dummy': False and no 'toolchain' fails like 'toolchain': False
C22_Witness ==
    /\ pc = "error"
    /\ err.kind = "unsupported toolchain spec"
    /\ dep.t = "dict"
    /\ "toolchain" \notin DOMAIN dep.v
    /\ "dummy" \in DOMAIN dep.v
    /\ dep.v.dummy = Bool(FALSE)
    /\ DOMAIN dep.v = {"name", "version", "dummy"}
    /\ dep.v.name = "a"

\* the value the element gives the field: "" when it gives none
GivenField(d, field, pos) ==
    CASE d.t = "dict" -> IF field \in DOMAIN d.v THEN d.v[field] ELSE ""
      [] d.t = "Dependency" -> d[field]
      [] d.t = "list" -> IF Len(d.v) >= pos THEN d.v[pos] ELSE ""
      [] OTHER -> ""

MANDATORY_PARAMS == <<"name", "version", "homepage", "description", "toolchain">>

ITERATE_OPTIONS ==
    <<"preconfigopts", "configopts", "prebuildopts", "buildopts", "preinstallopts", "installopts">>

MANDATORY == "MANDATORY"
CUSTOM == "CUSTOM"

\* easyconfig.default.DEFAULT_CONFIG: parameter -> default value
DEFAULT_CONFIG ==
    [name |-> None, version |-> None, homepage |-> None, description |-> None,
     toolchain |-> None, versionsuffix |-> Str(""),
     dependencies |-> List(<<>>), builddependencies |-> List(<<>>),
     hiddendependencies |-> List(<<>>),
     preconfigopts |-> Str(""), configopts |-> Str(""), prebuildopts |-> Str(""),
     buildopts |-> Str(""), preinstallopts |-> Str(""), installopts |-> Str(""),
     moduleclass |-> Str("base"), stop |-> None]

\* easyconfig.parser.DEPRECATED_PARAMETERS: deprecated key -> replacement
DEPRECATED_PARAMETERS == [depr_configopts |-> "configopts", depr_makeopts |-> "makeopts"]

\* easyconfig.parser.REPLACED_PARAMETERS: replaced key -> replacement
REPLACED_PARAMETERS ==
    [makeopts |-> "buildopts", premakeopts |-> "prebuildopts", license |-> "license_file"]

Range(q) == {q[i] : i \in DOMAIN q}

(***************************************************************************)
(* Keyed accessors, wrapped by handle_deprecated_or_replaced_...           *)
(* Each returns [err, value, config, deprecated]: the error raised, the    *)
(* value returned, self._config afterwards and the deprecated keys         *)
(* signalled, in order.                                                    *)
(***************************************************************************)
MutHandleNoRewrite(key) ==
    [key |-> key,
     deprecated |-> IF key \in DOMAIN DEPRECATED_PARAMETERS THEN <<key>> ELSE <<>>,
     err |-> IF key \in DOMAIN REPLACED_PARAMETERS
             THEN Error("replaced parameter", <<key, REPLACED_PARAMETERS[key]>>)
             ELSE NoError]

MutHandleReplacedFirst(key) ==
    [key |-> IF key \in DOMAIN DEPRECATED_PARAMETERS THEN DEPRECATED_PARAMETERS[key] ELSE key,
     deprecated |-> IF key \in DOMAIN DEPRECATED_PARAMETERS THEN <<key>> ELSE <<>>,
     err |-> IF key \in DOMAIN REPLACED_PARAMETERS
             THEN Error("replaced parameter", <<key, REPLACED_PARAMETERS[key]>>)
             ELSE NoError]

\* lines 82-90: the key the wrapped method gets, the signal, the nosupport error
HandleDeprecatedOrReplaced(key) ==
    LET depr == key \in DOMAIN DEPRECATED_PARAMETERS
        k == IF depr THEN DEPRECATED_PARAMETERS[key] ELSE key
    IN  [key |-> k,
         deprecated |-> IF depr THEN <<key>> ELSE <<>>,
         err |-> IF k \in DOMAIN REPLACED_PARAMETERS
                 THEN Error("replaced parameter", <<k, REPLACED_PARAMETERS[k]>>)
                 ELSE NoError]

Raised(e, cfg, signals) == [err |-> e, value |-> None, config |-> cfg, deprecated |-> signals]
Returned(v, cfg, signals) == [err |-> NoError, value |-> v, config |-> cfg, deprecated |-> signals]

\* __contains__
Contains(cfg, key) ==
    LET h == HandleDeprecatedOrReplaced(key)
    IN  IF h.err # NoError THEN Raised(h.err, cfg, h.deprecated)
        ELSE Returned(Bool(h.key \in DOMAIN cfg), cfg, h.deprecated)

\* __getitem__; the parameter values of this model hold no '%', and
\* resolve_template returns such a value as it is
GetItem(cfg, key) ==
    LET h == HandleDeprecatedOrReplaced(key)
    IN  IF h.err # NoError THEN Raised(h.err, cfg, h.deprecated)
        ELSE IF h.key \in DOMAIN cfg THEN Returned(cfg[h.key], cfg, h.deprecated)
        ELSE Raised(Error("unknown parameter when getting", h.key), cfg, h.deprecated)

\* __setitem__
SetItem(cfg, key, value) ==
    LET h == HandleDeprecatedOrReplaced(key)
    IN  IF h.err # NoError THEN Raised(h.err, cfg, h.deprecated)
        ELSE IF h.key \in DOMAIN cfg
        THEN Returned(None, [cfg EXCEPT ![h.key] = value], h.deprecated)
        ELSE Raised(Error("unknown parameter when setting", <<h.key, value>>), cfg, h.deprecated)

\* get: 'key in self' and self[key] are wrapped accessors called with the
\* rewritten key
Get(cfg, key, default) ==
    LET h == HandleDeprecatedOrReplaced(key)
        c == Contains(cfg, h.key)
        g == GetItem(cfg, h.key)
    IN  IF h.err # NoError THEN Raised(h.err, cfg, h.deprecated)
        ELSE IF c.err # NoError THEN Raised(c.err, cfg, h.deprecated \o c.deprecated)
        ELSE IF c.value.v
        THEN [g EXCEPT !.deprecated = h.deprecated \o c.deprecated \o @]
        ELSE Returned(default, cfg, h.deprecated \o c.deprecated)

(***************************************************************************)
(* EasyConfig.__init__ (lines 134-157) and EasyConfig.parse                *)
(***************************************************************************)
\* self._config = copy.deepcopy(DEFAULT_CONFIG); self._config.update(extra_options)
ConfigWithExtraOptions(extra) ==
    Update(DEFAULT_CONFIG,
           [k \in {extra[i].key : i \in DOMAIN extra} |->
               (CHOOSE e \in Range(extra) : e.key = k).default])

MutMandatoryKeysNoExtra(extra) == MANDATORY_PARAMS

\* self.mandatory: MANDATORY_PARAMS, then the extra options flagged MANDATORY
MandatoryKeys(extra) ==
    LET m == SelectSeq(extra, LAMBDA e : e.flag = MANDATORY)
    IN  MANDATORY_PARAMS \o [i \in 1..Len(m) |-> m[i].key]

\* line 242
MissingMandatoryKeys(mand, lv) == SelectSeq(mand, LAMBDA k : k \notin DOMAIN lv)

\* str.lower() on the raw keys of the model
Lower(key) == IF key = "Versoin" THEN "versoin"
              ELSE IF key = "Hompage" THEN "hompage" ELSE key

\* difflib.get_close_matches(word, possibilities, 1, 0.85) on the words of the
\* model: 'versoin' is within 0.85 of 'version' and 'hompage' of 'homepage',
\* nothing else is close
GetCloseMatches(word, possibilities) ==
    IF word = "versoin" /\ "version" \in possibilities THEN <<"version">>
    ELSE IF word = "hompage" /\ "homepage" \in possibilities THEN <<"homepage">>
    ELSE IF word \in possibilities THEN <<word>>
    ELSE <<>>

\* only one of the pairs is reported
MutTyposOneOnly(cfg, lv) ==
    LET all == {<<k, GetCloseMatches(Lower(k), DOMAIN cfg)[1]>> :
                   k \in {x \in DOMAIN lv : /\ Contains(cfg, x).err = NoError
                                            /\ ~Contains(cfg, x).value.v
                                            /\ Len(GetCloseMatches(Lower(x), DOMAIN cfg)) = 1}}
    IN  IF all = {} THEN {} ELSE {CHOOSE p \in all : TRUE}

\* lines 247-250: the (key, guess) pairs of the raw keys that are not 'in self'
Typos(cfg, lv) ==
    {<<k, GetCloseMatches(Lower(k), DOMAIN cfg)[1]>> :
        k \in {x \in DOMAIN lv : /\ Contains(cfg, x).err = NoError
                                 /\ ~Contains(cfg, x).value.v
                                 /\ Len(GetCloseMatches(Lower(x), DOMAIN cfg)) = 1}}

DepListKeys == {"builddependencies", "dependencies", "hiddendependencies"}

\* lines 261/263: the list comprehension over the elements of local_vars[key]
ParsedDeps(q, hidden, owner) ==
    [i \in 1..Len(q) |-> ParseDependency(q[i], hidden, owner)]

\* the error of the first element of local_vars[key] that fails, as a set
FirstDepError(q, hidden, owner) ==
    LET r == ParsedDeps(q, hidden, owner)
        bad == {i \in 1..Len(q) : r[i].err # NoError}
    IN  IF bad = {} THEN {}
        ELSE {r[CHOOSE i \in bad : \A j \in bad : i <= j].err}

\* lines 256-265: the value stored for a raw key that is a known parameter
StoredValue(key, lv, owner) ==
    IF key \in DepListKeys
    THEN LET r == ParsedDeps(lv[key].v, key = "hiddendependencies", owner)
         IN  List([i \in 1..Len(r) |-> r[i].d])
    ELSE lv[key]

\* lines 256-278: self._config after a parse in which nothing raised
ConfigAfterParse(cfg, lv) ==
    Update(Update(cfg, [k \in DOMAIN lv \cap DOMAIN cfg |->
                           StoredValue(k, lv, lv["toolchain"].v)]),
           [k \in {"parsed"} |-> Bool(TRUE)])

\* a raw mapping with the mandatory parameters and nothing else
BaseRawMapping ==
    [name |-> Str("a"), version |-> Str("1"), homepage |-> Str("h"),
     description |-> Str("d"), toolchain |-> Dict([name |-> "gcc", version |-> "4.8"])]

\* the deprecated keys in S get one more signal each
Signalled(log, S) == [k \in DOMAIN log |-> IF k \in S THEN log[k] + 1 ELSE log[k]]

NoSignals == [k \in DOMAIN DEPRECATED_PARAMETERS |-> 0]

(***************************************************************************)
(* SpecParse: EasyConfig.__init__ up to and including self.parse()         *)
(***************************************************************************)
ExtKeys == {"extA", "extB"}

ExtraOption == [key : ExtKeys, default : {Str("")}, flag : {MANDATORY, CUSTOM}]

\* the extra_options dicts, in each items() order
ExtraOptionDicts ==
    {<<>>} \cup {<<e>> : e \in ExtraOption}
    \cup {q \in {<<e1, e2>> : e1 \in ExtraOption, e2 \in ExtraOption} : q[1].key # q[2].key}

GoodDep == List(<<"a", "1">>)
NamelessDep == List(<<"", "1">>)

\* the values the parser can give each raw key
RawValue ==
    [name |-> {Str("a")}, version |-> {Str("1")}, homepage |-> {Str("h")},
     description |-> {Str("d")},
     toolchain |-> {Dict([name |-> "gcc", version |-> "4.8"]), Dict(DummyToolchain)},
     extA |-> {Str("x")}, extB |-> {Str("y")},
     dependencies |-> {List(<<GoodDep>>), List(<<GoodDep, NamelessDep>>)},
     Versoin |-> {Str("2")}, foo |-> {Str("bar")}, makeopts |-> {Str("-j")},
     depr_configopts |-> {Str("--with-x")}]

RawMappings == PartialDicts(DOMAIN RawValue, RawValue)

InitParse ==
    /\ pc = "new"
    /\ err = NoError
    /\ extra_options \in ExtraOptionDicts
    /\ local_vars \in RawMappings
    /\ mandatory = <<>>
    /\ config = <<>>
    /\ deprecated_log = NoSignals
    /\ IdleOutsideParse

\* __init__, lines 134-157
Construct ==
    /\ pc = "new"
    /\ config' = ConfigWithExtraOptions(extra_options)
    /\ mandatory' = MandatoryKeys(extra_options)
    /\ pc' = "constructed"
    /\ UNCHANGED <<err, extra_options, local_vars, deprecated_log, outsideParse>>

ParseFails(e) ==
    /\ err' = e
    /\ pc' = "error"
    /\ UNCHANGED config

\* parse(), lines 220-278. local_vars is a dict: the order in which its keys are
\* visited is not fixed, so which of several failing keys raises is a choice.
ParseCall ==
    /\ pc = "constructed"
    /\ LET missing == MissingMandatoryKeys(mandatory, local_vars)
           raising == {k \in DOMAIN local_vars : Contains(config, k).err # NoError}
           depr == DOMAIN local_vars \cap DOMAIN DEPRECATED_PARAMETERS
           typos == Typos(config, local_vars)
           owner == local_vars["toolchain"].v
           stored == DOMAIN local_vars \cap DOMAIN config
           depErrs == UNION {FirstDepError(local_vars[k].v, k = "hiddendependencies", owner) :
                                k \in stored \cap DepListKeys}
       IN  IF missing # <<>>
           THEN /\ ParseFails(Error("mandatory parameters not provided", missing))
                /\ UNCHANGED deprecated_log
           ELSE IF raising # {}
           THEN \E k \in raising, S \in SUBSET (depr \ raising) :
                    /\ ParseFails(Contains(config, k).err)
                    /\ deprecated_log' = Signalled(deprecated_log, S \cup ({k} \cap depr))
           ELSE IF typos # {}
           THEN /\ ParseFails(Error("typos", typos))
                /\ deprecated_log' = Signalled(deprecated_log, depr)
           ELSE IF depErrs # {}
           THEN /\ \E e \in depErrs : ParseFails(e)
                /\ deprecated_log' = Signalled(deprecated_log, depr)
           ELSE /\ config' = ConfigAfterParse(config, local_vars)
                /\ deprecated_log' = Signalled(deprecated_log, depr)
                /\ err' = NoError
                /\ pc' = "parsed"
    /\ UNCHANGED <<extra_options, local_vars, mandatory, outsideParse>>

NextParse == Construct \/ ParseCall

SpecParse == InitParse /\ [][NextParse]_vars

\* the mandatory set of the claim: the five generic parameters and every
\* extra option flagged MANDATORY
MandatorySet ==
    Range(MANDATORY_PARAMS) \cup {e.key : e \in {x \in Range(extra_options) : x.flag = MANDATORY}}

OmittedMandatory == MandatorySet \ DOMAIN local_vars

\* C1: parse fails whenever the raw mapping lacks a mandatory key, the error
\* names exactly the omitted mandatory keys, and when none is omitted the
\* mandatory check does not fail
C1_MissingMandatory ==
    pc \in {"parsed", "error"} =>
        /\ OmittedMandatory # {} =>
              /\ pc = "error"
              /\ err.kind = "mandatory parameters not provided"
              /\ Range(err.args) = OmittedMandatory
        /\ OmittedMandatory = {} => err.kind # "mandatory parameters not provided"

C1_Witness ==
    /\ pc = "error"
    /\ err.kind = "mandatory parameters not provided"
    /\ OmittedMandatory = {"homepage", "extA"}
    /\ "extB" \in DOMAIN config

(***************************************************************************)
(* EasyConfig.filter_hidden_deps                                           *)
(***************************************************************************)
\* line 385
DepModNames(deps) == [i \in 1..Len(deps) |-> deps[i].full_mod_name]

MutRemoveFirstMatching(deps, visible_mod_name) ==
    LET hits == {i \in 1..Len(deps) : deps[i].full_mod_name = visible_mod_name}
        first == CHOOSE i \in hits : \A j \in hits : i <= j
    IN  IF hits = {} THEN deps
        ELSE SubSeq(deps, 1, first - 1) \o SubSeq(deps, first + 1, Len(deps))

\* line 392
RemoveMatching(deps, visible_mod_name) ==
    SelectSeq(deps, LAMBDA d : d.full_mod_name # visible_mod_name)

MutFaultyErrorFirstOnly(faulty, names) ==
    Error("hidden dependencies not in list of dependencies", <<<<faulty[1]>>, names>>)

\* lines 402-403
FaultyError(faulty, names) ==
    Error("hidden dependencies not in list of dependencies", <<faulty, names>>)

\* line 385 and the start of the loop
FilterStart ==
    /\ pc = "filter_hidden_deps"
    /\ dep_mod_names' = DepModNames(GetItem(config, "dependencies").value.v)
    /\ faulty_deps' = <<>>
    /\ hidden_idx' = 1
    /\ pc' = "filter_loop"
    /\ UNCHANGED <<err, config, local_vars, outsideFilter>>

\* lines 388-399: one iteration of the loop
FilterStep ==
    /\ pc = "filter_loop"
    /\ hidden_idx <= Len(GetItem(config, "hiddendependencies").value.v)
    /\ LET hidden_dep == GetItem(config, "hiddendependencies").value.v[hidden_idx]
           visible == DetFullModuleName(hidden_dep, TRUE)
       IN  IF ~visible.ok
           THEN /\ err' = Error("invalid module name", visible.name)
                /\ pc' = "error"
                /\ UNCHANGED <<config, faulty_deps, hidden_idx>>
           ELSE /\ IF visible.name \in Range(dep_mod_names)
                   THEN /\ config' = SetItem(config, "dependencies",
                                         List(RemoveMatching(
                                             GetItem(config, "dependencies").value.v,
                                             visible.name))).config
                        /\ UNCHANGED faulty_deps
                   ELSE /\ faulty_deps' = Append(faulty_deps, visible.name)
                        /\ UNCHANGED config
                /\ hidden_idx' = hidden_idx + 1
                /\ UNCHANGED <<pc, err>>
    /\ UNCHANGED <<dep_mod_names, local_vars, outsideFilter>>

\* lines 401-403: after the loop
FilterEnd ==
    /\ pc = "filter_loop"
    /\ hidden_idx > Len(GetItem(config, "hiddendependencies").value.v)
    /\ IF faulty_deps # <<>>
       THEN /\ err' = FaultyError(faulty_deps, dep_mod_names)
            /\ pc' = "error"
       ELSE /\ pc' = "filtered"
            /\ UNCHANGED err
    /\ UNCHANGED <<config, local_vars, filterVars, outsideFilter>>

(***************************************************************************)
(* SpecFilter: filter_hidden_deps on a parsed EasyConfig                   *)
(***************************************************************************)
MaxPlainDeps == 3
MaxHiddenDeps == 2

\* raw dependency elements with three different full module names
RawDepPool == {List(<<"a", "1">>), List(<<"b", "1">>), List(<<"a", "1", "", Bool(TRUE)>>)}

RawDepLists(n) == {List(q) : q \in SeqsUpTo(n, [i \in 1..n |-> RawDepPool])}

InitFilter ==
    /\ pc = "filter_hidden_deps"
    /\ err = NoError
    /\ \E plain \in RawDepLists(MaxPlainDeps), hid \in RawDepLists(MaxHiddenDeps) :
          local_vars = Update(BaseRawMapping,
                              [dependencies |-> plain, hiddendependencies |-> hid])
    /\ config = ConfigAfterParse(DEFAULT_CONFIG, local_vars)
    /\ dep_mod_names = <<>>
    /\ faulty_deps = <<>>
    /\ hidden_idx = 0
    /\ IdleOutsideFilter

NextFilter == FilterStart \/ FilterStep \/ FilterEnd

SpecFilter == InitFilter /\ [][NextFilter]_vars

\* the dependency lists as parse stored them, from the raw mapping
PlainAtEntry == StoredValue("dependencies", local_vars, local_vars["toolchain"].v).v
HiddenAtEntry == StoredValue("hiddendependencies", local_vars, local_vars["toolchain"].v).v

\* the full module name of a hidden dependency with its hidden flag cleared
VisibleName(h) == MnsDetFullModuleName([h EXCEPT !.hidden = FALSE])

VisibleNames == {VisibleName(h) : h \in Range(HiddenAtEntry)}

\* C3: when filter_hidden_deps completes without error, no plain dependency has
\* the visible full module name of a hidden dependency, 'hiddendependencies' is
\* unchanged, and the plain dependencies that match no hidden dependency are
\* kept in their original order
C3_HiddenFiltered ==
    pc = "filtered" =>
        /\ \A d \in Range(config["dependencies"].v) : d.full_mod_name \notin VisibleNames
        /\ config["hiddendependencies"].v = HiddenAtEntry
        /\ config["dependencies"].v =
              SelectSeq(PlainAtEntry, LAMBDA d : d.full_mod_name \notin VisibleNames)

\* two plain entries match one hidden dependency, a third plain entry is kept
C3_Witness ==
    /\ pc = "filtered"
    /\ Len(PlainAtEntry) = 3
    /\ Len(config["dependencies"].v) = 1
    /\ Len(HiddenAtEntry) = 1

\* the visible names of the hidden dependencies that match no plain dependency,
\* in the order of 'hiddendependencies'
FaultyAtEntry ==
    LET f == SelectSeq(HiddenAtEntry,
                       LAMBDA h : \A d \in Range(PlainAtEntry) : d.full_mod_name # VisibleName(h))
    IN  [i \in 1..Len(f) |-> VisibleName(f[i])]

\* C4: filter_hidden_deps fails exactly when some hidden dependency matches no
\* plain dependency; it fails only after all hidden dependencies were examined,
\* with one error that lists every faulty visible name and the full list of
\* plain dependency module names
C4_UnreconciledHidden ==
    /\ pc = "filtered" => FaultyAtEntry = <<>>
    /\ pc = "error" =>
          /\ FaultyAtEntry # <<>>
          /\ hidden_idx = Len(HiddenAtEntry) + 1
          /\ err = Error("hidden dependencies not in list of dependencies",
                         <<FaultyAtEntry, DepModNames(PlainAtEntry)>>)
    /\ (pc = "filter_loop" /\ hidden_idx > Len(HiddenAtEntry) /\ FaultyAtEntry # <<>>) =>
          ~ENABLED (FilterEnd /\ pc' = "filtered")

\* two faulty hidden dependencies, and a plain list that is not empty
C4_Witness ==
    /\ pc = "error"
    /\ Len(FaultyAtEntry) = 2
    /\ FaultyAtEntry[1] # FaultyAtEntry[2]
    /\ Len(PlainAtEntry) > 0

(***************************************************************************)
(* EasyConfig.validate_iterate_opts_lists                                  *)
(***************************************************************************)
\* vsc.utils.missing.nub followed by len(): the number of distinct elements
NubLen(q) == Cardinality(Range(q))

\* lines 363-372: (opt, len(self[opt])) for the options holding a list or tuple
OptCounts(cfg) ==
    LET listed == SelectSeq(ITERATE_OPTIONS, LAMBDA o : GetItem(cfg, o).value.t = "list")
    IN  [i \in 1..Len(listed) |-> <<listed[i], Len(GetItem(cfg, listed[i]).value.v)>>]

\* the whole method: the error raised, or NoError
ValidateIterateOptsLists(cfg) ==
    LET unavailable == SelectSeq(ITERATE_OPTIONS, LAMBDA o : Get(cfg, o, None).value = None)
        opt_counts == OptCounts(cfg)
        long == SelectSeq(opt_counts, LAMBDA c : c[2] > 1)
        list_opt_lengths == [i \in 1..Len(long) |-> long[i][2]]
    IN  IF unavailable # <<>>
        THEN Error("not available in self.cfg (anymore)", unavailable[1])
        ELSE IF NubLen(list_opt_lengths) > 1
        THEN Error("build option lists should have same length", opt_counts)
        ELSE NoError

(***************************************************************************)
(* SpecIter: validate_iterate_opts_lists on a parsed EasyConfig            *)
(***************************************************************************)
MaxOptLen == 3

\* the values an iterate option can hold: None, a string, a list or tuple
IterateOptValues ==
    {None, Str("--enable-x")} \cup {List([i \in 1..n |-> Str("o")]) : n \in 0..MaxOptLen}

InitIter ==
    /\ pc = "validate_iterate_opts_lists"
    /\ err = NoError
    /\ \E opts \in [Range(ITERATE_OPTIONS) -> IterateOptValues] :
          local_vars = Update(BaseRawMapping, opts)
    /\ config = ConfigAfterParse(DEFAULT_CONFIG, local_vars)
    /\ IdleOutsideIter

ValidateIterateOptsListsCall ==
    /\ pc = "validate_iterate_opts_lists"
    /\ err' = ValidateIterateOptsLists(config)
    /\ pc' = IF err' = NoError THEN "done" ELSE "error"
    /\ UNCHANGED <<config, local_vars, outsideIter>>

NextIter == ValidateIterateOptsListsCall

SpecIter == InitIter /\ [][NextIter]_vars

\* the distinct lengths greater than 1 among the list-valued iterate options
LongListLengths ==
    {Len(config[o].v) : o \in {x \in Range(ITERATE_OPTIONS) :
                                  config[x].t = "list" /\ Len(config[x].v) > 1}}

\* C5: validate_iterate_opts_lists fails exactly when more than one distinct
\* length greater than 1 occurs among the list-valued iterate options; lists of
\* length 0 or 1 and non-sequence values never cause a failure
C5_IterateOptsFailExactly ==
    pc \in {"done", "error"} => (pc = "error" <=> Cardinality(LongListLengths) > 1)

(***************************************************************************)
(* process_easyconfig and _easyconfigs_cache                               *)
(* Objects live in a heap, so that two names for one object are visible:   *)
(* an object is [content, items, edits], items the references of the       *)
(* objects it holds, edits the number of in-place changes made to it.      *)
(***************************************************************************)
\* build_option('hidden')
BuildOptionHidden == FALSE

\* retrieve_blocks_in_spec: the specs of the blocks of a file
Blocks(path) == IF path = "two.eb" THEN <<"two.eb#1", "two.eb#2">>
                ELSE IF path = "bad.eb" THEN <<"bad.eb#1", "bad.eb#2">>
                ELSE <<path>>

\* whether EasyConfig(spec, ...) raises: the second block of bad.eb does
EasyConfigRaises(spec) == spec = "bad.eb#2"

\* lines 874-875
ResolvedHidden(args) == IF args.hidden = None THEN BuildOptionHidden ELSE args.hidden.v

\* a key without parse_only
MutCacheKeyWithoutParseOnly(args) == <<args.path, args.validate, ResolvedHidden(args), FALSE>>

\* line 880
CacheKey(args) == <<args.path, args.validate, ResolvedHidden(args), args.parse_only>>

\* lines 898-939: the dict built for one block
BlockEntry(spec, args) ==
    [content |-> [ec |-> [spec |-> spec, build_specs |-> args.build_specs,
                          validate |-> args.validate, hidden |-> ResolvedHidden(args)],
                  parse_only |-> args.parse_only],
     items |-> <<>>, edits |-> 0]

MutDeepCopyShallow(h, ref) ==
    [heap |-> Append(h, h[ref]), ref |-> Len(h) + 1]

\* copy.deepcopy of a list object: the objects it holds are copied too
DeepCopy(h, ref) ==
    LET n == Len(h[ref].items)
        copies == [i \in 1..n |-> h[h[ref].items[i]]]
    IN  [heap |-> h \o copies \o <<[h[ref] EXCEPT !.items = [i \in 1..n |-> Len(h) + i]]>>,
         ref |-> Len(h) + n + 1]

\* lines 884-939: the list 'easyconfigs' of a call that raises nowhere
BuildEasyconfigs(h, args) ==
    LET blocks == Blocks(args.path)
        n == Len(blocks)
    IN  [heap |-> h \o [i \in 1..n |-> BlockEntry(blocks[i], args)]
                    \o <<[content |-> "easyconfigs", edits |-> 0,
                          items |-> [i \in 1..n |-> Len(h) + i]]>>,
         ref |-> Len(h) + n + 1]

NoEdits(h, ref) == [pos \in 0..Len(h[ref].items) |-> 0]

\* a failing call that stores, under its key, what it would have built
MutProcessStoresOnFailure(h, cache, args) ==
    LET cache_key == CacheKey(args)
        cached == args.build_specs = None
        built == BuildEasyconfigs(h, args)
        stored == DeepCopy(built.heap, built.ref)
        hit == DeepCopy(h, cache[cache_key])
        failed == \E i \in DOMAIN Blocks(args.path) : EasyConfigRaises(Blocks(args.path)[i])
    IN  IF cached /\ cache_key \in DOMAIN cache
        THEN [err |-> NoError, heap |-> hit.heap, cache |-> cache, result |-> hit.ref]
        ELSE IF cached
        THEN [err |-> IF failed THEN Error("Failed to process easyconfig", args.path)
                      ELSE NoError,
              heap |-> stored.heap,
              cache |-> Update(cache, [k \in {cache_key} |-> stored.ref]),
              result |-> IF failed THEN 0 ELSE built.ref]
        ELSE [err |-> NoError, heap |-> built.heap, cache |-> cache, result |-> built.ref]

\* one call of process_easyconfig: [err, heap, cache, result], result the
\* reference returned (0 when the call raises)
ProcessEasyconfig(h, cache, args) ==
    LET cache_key == CacheKey(args)
        cached == args.build_specs = None
        built == BuildEasyconfigs(h, args)
        stored == DeepCopy(built.heap, built.ref)
        hit == DeepCopy(h, cache[cache_key])
    IN  IF cached /\ cache_key \in DOMAIN cache
        THEN [err |-> NoError, heap |-> hit.heap, cache |-> cache, result |-> hit.ref]
        ELSE IF \E i \in DOMAIN Blocks(args.path) : EasyConfigRaises(Blocks(args.path)[i])
        THEN [err |-> Error("Failed to process easyconfig", args.path),
              heap |-> h, cache |-> cache, result |-> 0]
        ELSE IF cached
        THEN [err |-> NoError, heap |-> stored.heap,
              cache |-> Update(cache, [k \in {cache_key} |-> stored.ref]),
              result |-> built.ref]
        ELSE [err |-> NoError, heap |-> built.heap, cache |-> cache, result |-> built.ref]

(***************************************************************************)
(* SpecCache: callers of process_easyconfig that edit what they got        *)
(***************************************************************************)
MaxCalls == 3
MaxEdits == 2

\* (validate, parse_only, hidden) of the calls made; the first two give one key
CallFlags == {<<TRUE, FALSE, None>>, <<TRUE, FALSE, Bool(FALSE)>>}

CallArgs ==
    {[path |-> "two.eb", build_specs |-> b, validate |-> f[1], parse_only |-> f[2],
      hidden |-> f[3]] : b \in {None, Dict([version |-> "2"])}, f \in CallFlags}
    \cup {[path |-> p, build_specs |-> None, validate |-> TRUE, parse_only |-> p = "two.eb",
           hidden |-> None] : p \in {"two.eb", "bad.eb"}}

InitCache ==
    /\ pc = "ready"
    /\ err = NoError
    /\ easyconfigs_cache = <<>>
    /\ heap = <<>>
    /\ returned = <<>>
    /\ calls = 0
    /\ IdleOutsideCache

ProcessEasyconfigCall ==
    /\ calls < MaxCalls
    /\ \E args \in CallArgs :
          LET r == ProcessEasyconfig(heap, easyconfigs_cache, args)
          IN  /\ err' = r.err
              /\ heap' = r.heap
              /\ easyconfigs_cache' = r.cache
              /\ returned' = IF r.err = NoError
                             THEN Append(returned, [args |-> args, ref |-> r.result,
                                                    own |-> NoEdits(r.heap, r.result)])
                             ELSE returned
    /\ calls' = calls + 1
    /\ UNCHANGED <<pc, outsideCache>>

\* the object at position pos of a result: 0 the list, i its i-th dict
ObjectAt(h, ref, pos) == IF pos = 0 THEN ref ELSE h[ref].items[pos]

RECURSIVE SumOwn(_, _)
SumOwn(own, n) == IF n < 0 THEN 0 ELSE own[n] + SumOwn(own, n - 1)

RECURSIVE EditsMade(_, _)
EditsMade(res, i) ==
    IF i = 0 THEN 0
    ELSE SumOwn(res[i].own, Cardinality(DOMAIN res[i].own) - 1) + EditsMade(res, i - 1)

\* a caller changes, in place, the list it got or one of the dicts in it
EditResult ==
    /\ EditsMade(returned, Len(returned)) < MaxEdits
    /\ \E i \in DOMAIN returned :
          \E pos \in DOMAIN returned[i].own :
              /\ heap' = [heap EXCEPT ![ObjectAt(heap, returned[i].ref, pos)].edits = @ + 1]
              /\ returned' = [returned EXCEPT ![i].own[pos] = @ + 1]
    /\ UNCHANGED <<pc, err, easyconfigs_cache, calls, outsideCache>>

NextCache == ProcessEasyconfigCall \/ EditResult

SpecCache == InitCache /\ [][NextCache]_vars

\* the dicts process_easyconfig builds for these arguments
FreshEntries(args) == [i \in DOMAIN Blocks(args.path) |-> BlockEntry(Blocks(args.path)[i], args)]

\* the result is what a fresh resolution gives, changed only by its owner's edits
OwnEditsOnly(res) ==
    /\ heap[res.ref].edits = res.own[0]
    /\ Len(heap[res.ref].items) = Len(FreshEntries(res.args))
    /\ \A i \in DOMAIN heap[res.ref].items :
          heap[heap[res.ref].items[i]] = [FreshEntries(res.args)[i] EXCEPT !.edits = res.own[i]]

\* the objects of a result: the list and the dicts it holds
ObjectsOf(ref) == {ref} \cup Range(heap[ref].items)

\* C6: results of process_easyconfig calls with the same key and no build specs
\* are equal in content and share no object with each other or with the cache
\* entry: whatever edits were made to one result, every other result holds what
\* a fresh resolution gives plus its own edits, and the cache entry is unedited
C6_CacheIndependence ==
    /\ \A i \in DOMAIN returned : OwnEditsOnly(returned[i])
    /\ \A i, j \in DOMAIN returned : i # j =>
          ObjectsOf(returned[i].ref) \cap ObjectsOf(returned[j].ref) = {}
    /\ \A k \in DOMAIN easyconfigs_cache :
          /\ \A o \in ObjectsOf(easyconfigs_cache[k]) : heap[o].edits = 0
          /\ \A i \in DOMAIN returned :
                ObjectsOf(easyconfigs_cache[k]) \cap ObjectsOf(returned[i].ref) = {}

\* three results for one key: the first (the miss) and the second (a hit) were
\* edited, the third is untouched
C6_Witness ==
    /\ Len(returned) = 3
    /\ \A i \in 1..3 : /\ returned[i].args.build_specs = None
                       /\ CacheKey(returned[i].args) = CacheKey(returned[1].args)
    /\ returned[1].own[1] = 1
    /\ returned[2].own[0] = 1
    /\ SumOwn(returned[3].own, 2) = 0

\* C13: a process_easyconfig call in which the resolution of a block fails, also
\* of a block after one that resolved, hands no result to its caller and leaves
\* _easyconfigs_cache as it was before the call
C13_FailedCallLeavesCache ==
    [][(calls' = calls + 1 /\ err' # NoError) =>
          /\ easyconfigs_cache' = easyconfigs_cache
          /\ returned' = returned
          /\ heap' = heap]_vars

\* the call for bad.eb, whose second block fails, made when the cache holds an
\* entry and a result was handed out before
C13_Witness ==
    /\ err = Error("Failed to process easyconfig", "bad.eb")
    /\ Len(Blocks("bad.eb")) = 2
    /\ ~EasyConfigRaises(Blocks("bad.eb")[1])
    /\ DOMAIN easyconfigs_cache # {}
    /\ Len(returned) = 1
    /\ calls = 2

(***************************************************************************)
(* SpecKeys: process_easyconfig called with every combination of build     *)
(* specs, validate, hidden and parse_only                                  *)
(***************************************************************************)
KeyArgs ==
    [path : {"one.eb"}, build_specs : {None, Dict([version |-> "2"])}, validate : BOOLEAN,
     parse_only : BOOLEAN, hidden : {None, Bool(TRUE)}]

ProcessEasyconfigKeyCall ==
    /\ calls < MaxCalls
    /\ \E args \in KeyArgs :
          \E r \in {ProcessEasyconfig(heap, easyconfigs_cache, args)} :
              /\ err' = r.err
              /\ heap' = r.heap
              /\ easyconfigs_cache' = r.cache
              /\ returned' = Append(returned, [args |-> args, ref |-> r.result,
                                               own |-> NoEdits(r.heap, r.result)])
    /\ calls' = calls + 1
    /\ UNCHANGED <<pc, outsideCache>>

NextKeys == ProcessEasyconfigKeyCall

SpecKeys == InitCache /\ [][NextKeys]_vars

\* the dicts of a result are those the arguments args build
BuiltFrom(h, ref, args) ==
    /\ Len(h[ref].items) = Len(Blocks(args.path))
    /\ \A i \in DOMAIN h[ref].items :
          h[h[ref].items[i]].content = BlockEntry(Blocks(args.path)[i], args).content

\* C29: a call with build specs leaves _easyconfigs_cache as it is and returns
\* what its own arguments build, not an entry of the cache; a call without build
\* specs returns what its own path, validate, hidden and parse_only build, so no
\* entry stored under another value of one of them is returned to it, and it
\* writes no key but its own.
C29_KeySeparation ==
    [][calls' = calls + 1 =>
          LET call == returned'[Len(returned')]
              key == <<call.args.path, call.args.validate,
                       IF call.args.hidden = None THEN BuildOptionHidden
                       ELSE call.args.hidden.v,
                       call.args.parse_only>>
          IN  /\ BuiltFrom(heap', call.ref, call.args)
              /\ call.args.build_specs # None => easyconfigs_cache' = easyconfigs_cache
              /\ call.args.build_specs = None =>
                    /\ DOMAIN easyconfigs_cache' = DOMAIN easyconfigs_cache \cup {key}
                    /\ \A k \in DOMAIN easyconfigs_cache :
                          easyconfigs_cache'[k] = easyconfigs_cache[k]]_vars

\* two entries that differ in parse_only alone are stored, and a call with build
\* specs is made for the key of one of them
C29_Witness ==
    /\ Len(returned) = 3
    /\ returned[1].args.build_specs = None
    /\ returned[2].args = [returned[1].args EXCEPT !.parse_only = ~@]
    /\ returned[3].args = [returned[1].args EXCEPT !.build_specs = Dict([version |-> "2"])]
    /\ Cardinality(DOMAIN easyconfigs_cache) = 2
    /\ CacheKey(returned[3].args) \in DOMAIN easyconfigs_cache

(***************************************************************************)
(* create_paths and robot_find_easyconfig                                  *)
(* A path is [abs, segs]: whether it starts at '/', and its segments; a    *)
(* segment, a name and a version are sequences of tokens, so that          *)
(* "%s-%s" and name.lower()[0] act on them.                                *)
(***************************************************************************)
Cwd == <<<<"cwd">>>>

\* os.path.join(path, *cand_path), the joined segments being relative
Join(path, segs) == [path EXCEPT !.segs = @ \o segs]

\* "%s.eb" % path
WithEb(path) == [path EXCEPT !.segs[Len(path.segs)] = Append(@, ".eb")]

\* os.path.normpath: the '.' segments go
Normpath(path) == [path EXCEPT !.segs = SelectSeq(@, LAMBDA seg : seg # <<".">>)]

\* os.path.abspath(path) = normpath(join(os.getcwd(), path))
Abspath(path) ==
    Normpath(IF path.abs THEN path ELSE [abs |-> TRUE, segs |-> Cwd \o path.segs])

\* os.path.isfile(path) on the file system fs
IsFile(fs, path) == Abspath(path) \in fs

\* str.lower() on the letters of the model
LowerToken(c) == IF c = "F" THEN "f" ELSE c

\* "%s-%s" % (name, version)
NameVersion(name, version) == name \o <<"-">> \o version

CandPaths(name, version) ==
    << <<name, version>>,
       <<name, NameVersion(name, version)>>,
       <<<<LowerToken(name[1])>>, name, NameVersion(name, version)>>,
       <<NameVersion(name, version)>> >>

MutCreatePathsFlatFirst(path, name, version) ==
    [i \in 1..4 |-> WithEb(Join(path, CandPaths(name, version)[5 - i]))]

CreatePaths(path, name, version) ==
    [i \in 1..4 |-> WithEb(Join(path, CandPaths(name, version)[i]))]

\* 'not paths'
NoPaths(paths) == paths = None \/ paths = List(<<>>)

\* lines 973-974: a robot path that is no list or tuple is made a list of one
PathList(paths) == IF paths.t = "list" THEN paths.v ELSE <<paths.v>>

\* the inner for loop: the first candidate that is a file, 0 if none
RECURSIVE FirstFile(_, _, _)
FirstFile(fs, cands, i) ==
    IF i > Len(cands) THEN 0
    ELSE IF IsFile(fs, cands[i]) THEN i
    ELSE FirstFile(fs, cands, i + 1)

\* the outer for loop from the i-th root on: the path found, or None
RECURSIVE SearchRoots(_, _, _, _, _)
SearchRoots(fs, roots, i, name, version) ==
    IF i > Len(roots) THEN None
    ELSE LET cands == CreatePaths(roots[i], name, version)
             j == FirstFile(fs, cands, 1)
         IN  IF j # 0 THEN Abspath(cands[j])
             ELSE SearchRoots(fs, roots, i + 1, name, version)

\* every outcome of the search is cached, None as well
MutRobotFindCachesNotFound(cache, paths, fs, name, version) ==
    LET key == <<name, version>>
    IN  IF key \in DOMAIN cache
        THEN [err |-> NoError, result |-> cache[key], cache |-> cache, hit |-> TRUE]
        ELSE IF NoPaths(paths)
        THEN [err |-> Error("no robot path", <<>>), result |-> None, cache |-> cache,
              hit |-> FALSE]
        ELSE LET found == SearchRoots(fs, PathList(paths), 1, name, version)
             IN  [err |-> NoError, result |-> found, hit |-> FALSE,
                  cache |-> (key :> found) @@ cache]

\* robot_find_easyconfig(name, version): [err, result, cache, hit]
RobotFindEasyconfig(cache, paths, fs, name, version) ==
    LET key == <<name, version>>
    IN  IF key \in DOMAIN cache
        THEN [err |-> NoError, result |-> cache[key], cache |-> cache, hit |-> TRUE]
        ELSE IF NoPaths(paths)
        THEN [err |-> Error("no robot path", <<>>), result |-> None, cache |-> cache,
              hit |-> FALSE]
        ELSE LET found == SearchRoots(fs, PathList(paths), 1, name, version)
             IN  [err |-> NoError, result |-> found, hit |-> FALSE,
                  cache |-> IF found = None THEN cache ELSE (key :> found) @@ cache]

(***************************************************************************)
(* SpecRobot: lookups while the file system and the robot path change      *)
(***************************************************************************)
MaxFiles == 2

RobotNames == {<<"F", "o", "o">>}
RobotVersions == {<<"1.2">>}
AbsRoot == [abs |-> TRUE, segs |-> <<<<"r1">>>>]
RelRoot == [abs |-> FALSE, segs |-> <<<<".">>, <<"r2">>>>]
RobotPaths ==
    {None, List(<<>>), [t |-> "str", v |-> AbsRoot], List(<<AbsRoot, RelRoot>>),
     List(<<RelRoot, AbsRoot>>)}

\* the files that come and go: the four candidates under the absolute root, and
\* the first and the third under the relative root
FilePool ==
    {Abspath(CreatePaths(AbsRoot, n, v)[i]) :
        n \in RobotNames, v \in RobotVersions, i \in 1..4}
    \cup {Abspath(CreatePaths(RelRoot, n, v)[i]) :
        n \in RobotNames, v \in RobotVersions, i \in {1, 3}}

InitRobot ==
    /\ pc = "ready"
    /\ err = NoError
    /\ files = {}
    /\ robot_path \in RobotPaths
    /\ easyconfig_files_cache = <<>>
    /\ robot_call = [made |-> FALSE]
    /\ IdleOutsideRobot

RobotFindEasyconfigCall ==
    /\ \E name \in RobotNames, version \in RobotVersions :
          LET r == RobotFindEasyconfig(easyconfig_files_cache, robot_path, files, name, version)
          IN  /\ err' = r.err
              /\ easyconfig_files_cache' = r.cache
              /\ robot_call' = [made |-> TRUE, name |-> name, version |-> version,
                                hit |-> r.hit, result |-> r.result, err |-> r.err,
                                files |-> files, robot_path |-> robot_path]
    /\ UNCHANGED <<pc, files, robot_path, outsideRobot>>

CreateFile ==
    /\ Cardinality(files) < MaxFiles
    /\ \E f \in FilePool \ files : files' = files \cup {f}
    /\ UNCHANGED <<pc, err, robot_path, easyconfig_files_cache, robot_call, outsideRobot>>

RemoveFile ==
    /\ \E f \in files : files' = files \ {f}
    /\ UNCHANGED <<pc, err, robot_path, easyconfig_files_cache, robot_call, outsideRobot>>

SetRobotPath ==
    /\ \E p \in RobotPaths \ {robot_path} : robot_path' = p
    /\ UNCHANGED <<pc, err, files, easyconfig_files_cache, robot_call, outsideRobot>>

NextRobot == RobotFindEasyconfigCall \/ CreateFile \/ RemoveFile \/ SetRobotPath

SpecRobot == InitRobot /\ [][NextRobot]_vars

\* the four candidates of the claim under a root, in the claimed order
ClaimedCandidate(root, name, version, j) ==
    CASE j = 1 -> [root EXCEPT !.segs = @ \o <<name, version \o <<".eb">>>>]
      [] j = 2 -> [root EXCEPT !.segs = @ \o <<name, name \o <<"-">> \o version \o <<".eb">>>>]
      [] j = 3 -> [root EXCEPT !.segs = @ \o <<<<LowerToken(name[1])>>, name,
                                              name \o <<"-">> \o version \o <<".eb">>>>]
      [] j = 4 -> [root EXCEPT !.segs = @ \o <<name \o <<"-">> \o version \o <<".eb">>>>]

\* the (root, candidate) positions of the call that were regular files
ExistingAtCall ==
    {q \in (DOMAIN PathList(robot_call.robot_path)) \X (1..4) :
        Abspath(ClaimedCandidate(PathList(robot_call.robot_path)[q[1]], robot_call.name,
                                 robot_call.version, q[2])) \in robot_call.files}

Earlier(q1, q2) == q1[1] < q2[1] \/ (q1[1] = q2[1] /\ q1[2] < q2[2])

SameFile(result, cand) == result # None /\ Abspath(result) = Abspath(cand)
IsAbspathOf(result, cand) == result = Abspath(cand)

\* the call returned the first existing candidate (the same file, or exactly its
\* absolute path), None if there is none
FirstExistingReturned(same) ==
    /\ robot_call.err = NoError
    /\ IF ExistingAtCall = {} THEN robot_call.result = None
       ELSE \E q \in ExistingAtCall :
                /\ \A q2 \in ExistingAtCall : ~Earlier(q2, q)
                /\ LET cand == ClaimedCandidate(PathList(robot_call.robot_path)[q[1]],
                                                 robot_call.name, robot_call.version, q[2])
                   IN  IF same = "path" THEN IsAbspathOf(robot_call.result, cand)
                       ELSE SameFile(robot_call.result, cand)

\* C7 as stated: every robot_find_easyconfig call with a search root returns
\* the first existing file among the four candidates, None if there is none
C7_AsStated ==
    (robot_call.made /\ ~NoPaths(robot_call.robot_path)) => FirstExistingReturned("file")

\* C7: a robot_find_easyconfig call with a search root and no cached path for
\* (name, version) returns the absolute path of the first existing file among
\* root/name/version.eb, root/name/name-version.eb,
\* root/<first letter, lowercased>/name/name-version.eb, root/name-version.eb,
\* the roots taken in order, and None without error if no candidate is a file
C7_DiscoveryOnMiss ==
    (robot_call.made /\ ~robot_call.hit /\ ~NoPaths(robot_call.robot_path))
        => FirstExistingReturned("path")

\* a miss under the relative root first: only the third candidate form exists
\* there, and the first form exists under the second root
C7_Witness ==
    /\ robot_call.made /\ ~robot_call.hit
    /\ robot_call.robot_path = List(<<RelRoot, AbsRoot>>)
    /\ robot_call.files =
          {Abspath(ClaimedCandidate(RelRoot, robot_call.name, robot_call.version, 3)),
           Abspath(ClaimedCandidate(AbsRoot, robot_call.name, robot_call.version, 1))}
    /\ robot_call.result =
          Abspath(ClaimedCandidate(RelRoot, robot_call.name, robot_call.version, 3))

\* C28: an entry of _easyconfig_files_cache, once written, is never changed or
\* removed, and no entry is None; a call for a pair that has an entry returns the
\* entry without an error, whatever the robot path and the files are by then; a
\* call that finds nothing writes nothing, and a call for a pair without an entry
\* searches the roots as they are at that call.
C28_CacheWriteOnce ==
    [][/\ \A key \in DOMAIN easyconfig_files_cache :
             /\ key \in DOMAIN easyconfig_files_cache'
             /\ easyconfig_files_cache'[key] = easyconfig_files_cache[key]
       /\ \A key \in DOMAIN easyconfig_files_cache' : easyconfig_files_cache'[key] # None
       /\ robot_call' # robot_call =>
             LET key == <<robot_call'.name, robot_call'.version>>
             IN  IF key \in DOMAIN easyconfig_files_cache
                 THEN /\ robot_call'.result = easyconfig_files_cache[key]
                      /\ err' = NoError
                      /\ easyconfig_files_cache' = easyconfig_files_cache
                 ELSE /\ robot_call'.result = None =>
                            easyconfig_files_cache' = easyconfig_files_cache
                      /\ err' = NoError =>
                            robot_call'.result = SearchRoots(files, PathList(robot_path), 1,
                                                             key[1], key[2])
                      /\ robot_call'.result # None =>
                            /\ key \in DOMAIN easyconfig_files_cache'
                            /\ easyconfig_files_cache'[key] = robot_call'.result]_vars

\* a path is returned from the cache when the robot path is unset and the file
\* is gone
C28_Witness ==
    /\ robot_call.made /\ robot_call.hit
    /\ robot_call.robot_path = None
    /\ robot_call.result \notin robot_call.files
    /\ robot_call.result # None

(***************************************************************************)
(* resolve_template on a string.  Strings are sequences of characters.     *)
(***************************************************************************)
\* the characters \w matches, among those of the model; the word 'name' is one
\* token
WordChars == {"s", "x", "name"}

\* the number of '%' characters from position i on
RECURSIVE PercentRun(_, _)
PercentRun(str, i) ==
    IF i > Len(str) \/ str[i] # "%" THEN 0 ELSE 1 + PercentRun(str, i + 1)

\* the first position from i on that holds no word character
RECURSIVE WordEnd(_, _)
WordEnd(str, i) ==
    IF i > Len(str) \/ str[i] \notin WordChars THEN i ELSE WordEnd(str, i + 1)

\* \(\w+\)s matches at position j
PlaceholderAt(str, j) ==
    /\ j <= Len(str) /\ str[j] = "("
    /\ LET k == WordEnd(str, j + 1)
       IN  /\ k > j + 1
           /\ k + 1 <= Len(str)
           /\ str[k] = ")"
           /\ str[k + 1] = "s"

\* the negative lookahead (?!%*\(\w+\)s) fails after the '%' at position i
FollowedByPlaceholder(str, i) == PlaceholderAt(str, i + 1 + PercentRun(str, i + 1))

\* line 834: re.sub(r'(%)(?!%*\(\w+\)s)', r'\1\1', value)
RECURSIVE EscapeFrom(_, _)
EscapeFrom(str, i) ==
    IF i > Len(str) THEN <<>>
    ELSE (IF str[i] = "%" /\ ~FollowedByPlaceholder(str, i) THEN <<"%", "%">> ELSE <<str[i]>>)
         \o EscapeFrom(str, i + 1)

Escape(str) == EscapeFrom(str, 1)

\* the ')' closing the mapping key opened before position i, 0 if there is none
\* (the % operator counts nested parentheses)
RECURSIVE CloseParen(_, _, _)
CloseParen(str, i, depth) ==
    IF i > Len(str) THEN 0
    ELSE IF str[i] = ")" THEN (IF depth = 1 THEN i ELSE CloseParen(str, i + 1, depth - 1))
    ELSE IF str[i] = "(" THEN CloseParen(str, i + 1, depth + 1)
    ELSE CloseParen(str, i + 1, depth)

Emit(chars, rest) == IF rest.kind = "ok" THEN [rest EXCEPT !.out = chars \o @] ELSE rest

\* str % d from position i on, d a dict: [kind, out], kind "ok", "KeyError" or
\* "ValueError"; the leftmost failing conversion decides
RECURSIVE FormatFrom(_, _, _)
FormatFrom(str, d, i) ==
    IF i > Len(str) THEN [kind |-> "ok", out |-> <<>>]
    ELSE IF str[i] # "%" THEN Emit(<<str[i]>>, FormatFrom(str, d, i + 1))
    ELSE IF i + 1 > Len(str) THEN [kind |-> "ValueError", out |-> <<>>]
    ELSE IF str[i + 1] = "%" THEN Emit(<<"%">>, FormatFrom(str, d, i + 2))
    ELSE IF str[i + 1] = "s" THEN Emit(<<"{dict}">>, FormatFrom(str, d, i + 2))
    ELSE IF str[i + 1] = "("
    THEN LET c == CloseParen(str, i + 2, 1)
             key == SubSeq(str, i + 2, c - 1)
         IN  IF c = 0 THEN [kind |-> "ValueError", out |-> <<>>]
             ELSE IF key \notin DOMAIN d THEN [kind |-> "KeyError", out |-> <<>>]
             ELSE IF c + 1 > Len(str) THEN [kind |-> "ValueError", out |-> <<>>]
             ELSE IF str[c + 1] = "s" THEN Emit(d[key], FormatFrom(str, d, c + 2))
             ELSE IF str[c + 1] = "%" THEN Emit(<<"%">>, FormatFrom(str, d, c + 2))
             ELSE [kind |-> "ValueError", out |-> <<>>]
    ELSE [kind |-> "ValueError", out |-> <<>>]

\* resolve_template(value, tmpl_dict), value a string: [err, value]
ResolveTemplate(val, d) ==
    LET escaped == Escape(val)
        formatted == FormatFrom(escaped, d, 1)
    IN  IF formatted.kind = "ok" THEN [err |-> NoError, value |-> formatted.out]
        ELSE IF formatted.kind = "KeyError" THEN [err |-> NoError, value |-> escaped]
        ELSE [err |-> Error(formatted.kind, <<>>), value |-> None]

(***************************************************************************)
(* SpecTemplate: resolve_template on the strings over four characters      *)
(***************************************************************************)
MaxTemplateLen == 7

TemplateChars == {"%", "(", ")", "s"}
TemplateStrings == SeqsUpTo(MaxTemplateLen, [i \in 1..MaxTemplateLen |-> TemplateChars])
TemplateDicts == {<<>>, (<<"s">> :> <<"x">>)}

InitTemplate ==
    /\ pc = "ready"
    /\ err = NoError
    /\ tmpl_value \in TemplateStrings
    /\ tmpl_dict \in TemplateDicts
    /\ resolved = None
    /\ IdleOutsideTemplate

ResolveTemplateCall ==
    /\ pc = "ready"
    /\ LET r == ResolveTemplate(tmpl_value, tmpl_dict)
       IN  /\ err' = r.err
           /\ resolved' = r.value
    /\ pc' = "done"
    /\ UNCHANGED <<tmpl_value, tmpl_dict, outsideTemplate>>

NextTemplate == ResolveTemplateCall

SpecTemplate == InitTemplate /\ [][NextTemplate]_vars

Percents(n) == [i \in 1..n |-> "%"]

\* the escaping law read off a string: a run of '%' before (key)s is, when odd,
\* half of it literal and one placeholder, substituted if its key is known, and,
\* when even, half of it literal and no placeholder; every other '%' is literal
RECURSIVE EscapingLaw(_, _, _)
EscapingLaw(str, d, i) ==
    IF i > Len(str) THEN <<>>
    ELSE IF str[i] # "%" THEN <<str[i]>> \o EscapingLaw(str, d, i + 1)
    ELSE LET n == PercentRun(str, i)
             open == i + n
             close == WordEnd(str, open + 1)
             key == SubSeq(str, open + 1, close - 1)
         IN  IF ~PlaceholderAt(str, open)
             THEN Percents(n) \o EscapingLaw(str, d, open)
             ELSE IF n % 2 = 1
             THEN Percents((n - 1) \div 2)
                  \o (IF key \in DOMAIN d THEN d[key] ELSE SubSeq(str, open - 1, close + 1))
                  \o EscapingLaw(str, d, close + 2)
             ELSE Percents(n \div 2) \o SubSeq(str, open, close + 1)
                  \o EscapingLaw(str, d, close + 2)

\* C8: resolve_template on a string obeys the escaping law: a literal '%' comes
\* out as a single '%', a placeholder after an even number of extra '%' is
\* substituted from the context, and a placeholder after an even run of '%' is
\* left as the literal %(key)s
C8_EscapingLaw ==
    pc = "done" => (err = NoError /\ resolved = EscapingLaw(tmpl_value, tmpl_dict, 1))

(***************************************************************************)
(* The whole of EasyConfig.__init__, dependencies() and dump()             *)
(***************************************************************************)
\* filter_hidden_deps as one function: the loop from the i-th hidden dependency
\* on, then lines 401-403; [err, config]
RECURSIVE FilterLoop(_, _, _, _)
FilterLoop(cfg, names, faulty, i) ==
    LET hid == GetItem(cfg, "hiddendependencies").value.v
    IN  IF i > Len(hid)
        THEN [err |-> IF faulty # <<>> THEN FaultyError(faulty, names) ELSE NoError,
              config |-> cfg]
        ELSE LET visible == DetFullModuleName(hid[i], TRUE)
             IN  IF ~visible.ok
                 THEN [err |-> Error("invalid module name", visible.name), config |-> cfg]
                 ELSE IF visible.name \in Range(names)
                 THEN FilterLoop(SetItem(cfg, "dependencies",
                                         List(RemoveMatching(
                                             GetItem(cfg, "dependencies").value.v,
                                             visible.name))).config,
                                 names, faulty, i + 1)
                 ELSE FilterLoop(cfg, names, Append(faulty, visible.name), i + 1)

FilterHiddenDeps(cfg) ==
    FilterLoop(cfg, DepModNames(GetItem(cfg, "dependencies").value.v), <<>>, 1)

\* parse() as one function: [err, config]. Where several raw keys fail, the one
\* that raises depends on the order of the dict; any of them is taken.
Parse(cfg, mand, lv) ==
    LET missing == MissingMandatoryKeys(mand, lv)
        raising == {k \in DOMAIN lv : Contains(cfg, k).err # NoError}
        typos == Typos(cfg, lv)
        owner == lv["toolchain"].v
        depErrs == UNION {FirstDepError(lv[k].v, k = "hiddendependencies", owner) :
                             k \in DOMAIN lv \cap DOMAIN cfg \cap DepListKeys}
    IN  IF missing # <<>>
        THEN [err |-> Error("mandatory parameters not provided", missing), config |-> cfg]
        ELSE IF raising # {}
        THEN [err |-> Contains(cfg, CHOOSE k \in raising : TRUE).err, config |-> cfg]
        ELSE IF typos # {} THEN [err |-> Error("typos", typos), config |-> cfg]
        ELSE IF depErrs # {} THEN [err |-> CHOOSE e \in depErrs : TRUE, config |-> cfg]
        ELSE [err |-> NoError, config |-> ConfigAfterParse(cfg, lv)]

\* what the naming scheme reads from an EasyConfig
EcForNaming(cfg, hidden) ==
    [name |-> GetItem(cfg, "name").value.v, version |-> GetItem(cfg, "version").value.v,
     versionsuffix |-> GetItem(cfg, "versionsuffix").value.v,
     toolchain |-> GetItem(cfg, "toolchain").value.v, hidden |-> hidden]

\* __init__ raised
Failed(e) == [err |-> e, config |-> <<>>, full_mod_name |-> <<>>]

\* lines 192-195: the module name of the EasyConfig
Named(cfg, full) ==
    IF ~full.ok THEN Failed(Error("invalid module name", full.name))
    ELSE [err |-> NoError, config |-> cfg, full_mod_name |-> full.name]

\* lines 184-195, filtered being what filter_hidden_deps did
AfterFilter(filtered, hidden) ==
    IF filtered.err # NoError THEN Failed(filtered.err)
    ELSE Named(filtered.config, DetFullModuleName(EcForNaming(filtered.config, hidden), FALSE))

\* lines 179-195, invalid being the error of validate()
AfterValidate(cfg, invalid, hidden) ==
    IF invalid # NoError THEN Failed(invalid) ELSE AfterFilter(FilterHiddenDeps(cfg), hidden)

\* lines 176-195, parsed being what parse() did
AfterParse(parsed, validate, hidden) ==
    IF parsed.err # NoError THEN Failed(parsed.err)
    ELSE AfterValidate(parsed.config,
                       IF validate THEN ValidateIterateOptsLists(parsed.config) ELSE NoError,
                       hidden)

\* __init__, lines 134-195, for a raw mapping lv: [err, config, full_mod_name]
NewEasyConfig(extra, lv, validate, hidden) ==
    AfterParse(Parse(ConfigWithExtraOptions(extra), MandatoryKeys(extra), lv), validate, hidden)

\* the filter applied to the plain dependencies only
MutDependenciesFilterPlainOnly(cfg, filter_deps) ==
    SelectSeq(GetItem(cfg, "dependencies").value.v, LAMBDA d : d.name \notin Range(filter_deps))
    \o GetItem(cfg, "builddependencies").value.v
    \o GetItem(cfg, "hiddendependencies").value.v

\* dependencies(), lines 405-426; filter_deps is the 'filter_deps' build option
Dependencies(cfg, filter_deps) ==
    LET deps == GetItem(cfg, "dependencies").value.v
                \o GetItem(cfg, "builddependencies").value.v
                \o GetItem(cfg, "hiddendependencies").value.v
    IN  IF filter_deps # <<>>
        THEN SelectSeq(deps, LAMBDA d : d.name \notin Range(filter_deps))
        ELSE deps

\* "%s" % x for a stored value: the Python literal that str() writes. A stored
\* dependency is a dict whose 'toolchain' is a dict.
PyLiteral(key, x) ==
    IF key \in DepListKeys
    THEN List([i \in 1..Len(x.v) |-> Dict([x.v[i] EXCEPT !.toolchain = Dict(@)])])
    ELSE x

\* to_str, lines 465-475: a string is quoted, anything else is written by "%s"
ToStr(key, x) ==
    IF x.t = "str" THEN [quoted |-> TRUE, text |-> x.v]
    ELSE [quoted |-> FALSE, text |-> PyLiteral(key, x)]

\* dump(), lines 490-505: the parameters of DEFAULT_CONFIG whose value differs
\* from the default, each as 'key = to_str(value)'
DumpText(cfg) ==
    [k \in {x \in DOMAIN DEFAULT_CONFIG : cfg[x] # DEFAULT_CONFIG[x]} |-> ToStr(k, cfg[k])]

\* the parser's get_config_dict() on a dumped text
GetConfigDict(txt) ==
    [k \in DOMAIN txt |-> IF txt[k].quoted THEN Str(txt[k].text) ELSE txt[k].text]

(***************************************************************************)
(* SpecDump: resolve a raw mapping, dump it, resolve the dumped text       *)
(***************************************************************************)
DumpRawValue ==
    [dependencies |-> {List(<<List(<<"a", "1">>)>>),
                       List(<<List(<<"a", "1">>), List(<<"b", "1">>)>>)},
     builddependencies |-> {List(<<List(<<"b", "1">>)>>)},
     hiddendependencies |-> {List(<<List(<<"a", "1">>)>>), List(<<List(<<"b", "1">>)>>)},
     versionsuffix |-> {Str("-s")},
     extA |-> {Str("x")}, extB |-> {Str("y")}]

DumpRawMappings ==
    {Update(BaseRawMapping, opts) : opts \in PartialDicts(DOMAIN DumpRawValue, DumpRawValue)}

\* what the round trip compares
Observed(ec) ==
    [name |-> GetItem(ec.config, "name").value,
     version |-> GetItem(ec.config, "version").value,
     dependencies |-> Dependencies(ec.config, <<>>),
     full_mod_name |-> ec.full_mod_name]

InitDump ==
    /\ pc = "new"
    /\ err = NoError
    /\ extra_options \in ExtraOptionDicts
    /\ local_vars \in DumpRawMappings
    /\ mandatory = MandatoryKeys(extra_options)
    /\ config = <<>>
    /\ deprecated_log = NoSignals
    /\ observed = None
    /\ dumped = <<>>
    /\ reobserved = None
    /\ IdleOutsideDump

\* EasyConfig(path, extra_options=...) on the original file
ResolveCall ==
    /\ pc = "new"
    /\ \E ec \in {NewEasyConfig(extra_options, local_vars, TRUE, FALSE)} :
           /\ err' = ec.err
           /\ config' = ec.config
           /\ observed' = IF ec.err = NoError THEN Observed(ec) ELSE None
           /\ pc' = IF ec.err = NoError THEN "resolved" ELSE "error"
    /\ UNCHANGED <<extra_options, local_vars, mandatory, deprecated_log, dumped, reobserved,
                   outsideDump>>

\* ec.dump(fp)
DumpCall ==
    /\ pc = "resolved"
    /\ dumped' = DumpText(config)
    /\ pc' = "dumped"
    /\ UNCHANGED <<err, ecVars, observed, reobserved, outsideDump>>

\* EasyConfig(fp, extra_options=...) on the dumped file
ReresolveCall ==
    /\ pc = "dumped"
    /\ \E ec \in {NewEasyConfig(extra_options, GetConfigDict(dumped), TRUE, FALSE)} :
           /\ err' = ec.err
           /\ reobserved' = IF ec.err = NoError THEN Observed(ec) ELSE None
           /\ pc' = IF ec.err = NoError THEN "reresolved" ELSE "reresolve failed"
    /\ UNCHANGED <<ecVars, observed, dumped, outsideDump>>

NextDump == ResolveCall \/ DumpCall \/ ReresolveCall

SpecDump == InitDump /\ [][NextDump]_vars

\* C9: for every configuration that resolves, resolving its dump succeeds and
\* gives the same (name, version, dependencies, full module name), also with
\* hidden dependencies or extension parameters
C9_DumpRoundTrip ==
    /\ pc # "reresolve failed"
    /\ pc = "reresolved" => reobserved = observed

(***************************************************************************)
(* SpecAccess: keyed accesses of a parsed EasyConfig                       *)
(***************************************************************************)
MaxAccesses == 3

AccessKeys == {"configopts", "depr_configopts", "depr_makeopts", "makeopts", "nokey"}
AccessValues == {Str("--a"), None}

\* one more signal for every element of the sequence of deprecated keys
SignalAll(log, signals) ==
    [k \in DOMAIN log |-> log[k] + Cardinality({i \in DOMAIN signals : signals[i] = k})]

\* the accessor named op called with key and, for __setitem__ and get, arg
Accessor(op, cfg, key, arg) ==
    CASE op = "__contains__" -> Contains(cfg, key)
      [] op = "__getitem__" -> GetItem(cfg, key)
      [] op = "__setitem__" -> SetItem(cfg, key, arg)
      [] op = "get" -> Get(cfg, key, arg)

InitAccess ==
    /\ pc = "parsed"
    /\ err = NoError
    /\ config = ConfigAfterParse(DEFAULT_CONFIG, BaseRawMapping)
    /\ deprecated_log = NoSignals
    /\ access = [made |-> FALSE]
    /\ accesses = 0
    /\ IdleOutsideAccess

\* what every keyed access does with the outcome r of the accessor
Accessed(op, key, arg, r) ==
    /\ pc = "parsed"
    /\ accesses < MaxAccesses
    /\ err' = r.err
    /\ config' = r.config
    /\ deprecated_log' = SignalAll(deprecated_log, r.deprecated)
    /\ access' = [made |-> TRUE, op |-> op, key |-> key, arg |-> arg, before |-> config,
                  value |-> r.value, err |-> r.err, signals |-> r.deprecated]
    /\ accesses' = accesses + 1
    /\ UNCHANGED <<pc, outsideAccess>>

ContainsCall ==
    \E key \in AccessKeys : Accessed("__contains__", key, None, Contains(config, key))

GetItemCall ==
    \E key \in AccessKeys : Accessed("__getitem__", key, None, GetItem(config, key))

SetItemCall ==
    \E key \in AccessKeys, v \in AccessValues :
        Accessed("__setitem__", key, v, SetItem(config, key, v))

GetCall ==
    \E key \in AccessKeys, default \in AccessValues :
        Accessed("get", key, default, Get(config, key, default))

NextAccess == ContainsCall \/ GetItemCall \/ SetItemCall \/ GetCall

SpecAccess == InitAccess /\ [][NextAccess]_vars

\* the same accessor called on the same stored parameters with the replacement
WithReplacement ==
    Accessor(access.op, access.before, DEPRECATED_PARAMETERS[access.key], access.arg)

\* C10: a keyed accessor called with a deprecated key d emits one deprecation
\* signal for d and then does what the same accessor does when called with the
\* replacement of d: the same value or error, the same stored parameters
\* afterwards; d itself is never reported as an unknown parameter
C10_DeprecatedRewritten ==
    (access.made /\ access.key \in DOMAIN DEPRECATED_PARAMETERS) =>
        /\ access.value = WithReplacement.value
        /\ access.err = WithReplacement.err
        /\ config = WithReplacement.config
        /\ access.signals = <<access.key>> \o WithReplacement.deprecated
        /\ deprecated_log[access.key] >= 1
        /\ access.err.kind \notin {"unknown parameter when getting",
                                   "unknown parameter when setting"}

\* 'configopts' was set through its deprecated name after an earlier signal
C10_Witness ==
    /\ access.made
    /\ access.op = "__setitem__"
    /\ access.key = "depr_configopts"
    /\ access.arg = Str("--a")
    /\ access.before["configopts"] # Str("--a")
    /\ config["configopts"] = Str("--a")
    /\ deprecated_log["depr_configopts"] = 2

(***************************************************************************)
(* SpecReplaced: parse of a raw mapping that may hold replaced keys, then  *)
(* keyed accesses of the parsed EasyConfig                                 *)
(***************************************************************************)
ReplacedRawValue ==
    [makeopts |-> {Str("-j")}, depr_makeopts |-> {Str("-j")}, configopts |-> {Str("--b")}]

InitReplaced ==
    /\ pc = "new"
    /\ err = NoError
    /\ extra_options = <<>>
    /\ \E opts \in PartialDicts(DOMAIN ReplacedRawValue, ReplacedRawValue) :
          local_vars = Update(BaseRawMapping, opts)
    /\ mandatory = <<>>
    /\ config = <<>>
    /\ deprecated_log = NoSignals
    /\ access = [made |-> FALSE]
    /\ accesses = 0
    /\ IdleOutsideReplaced

NextReplaced ==
    Construct \/ ParseCall \/ ContainsCall \/ GetItemCall \/ SetItemCall \/ GetCall

SpecReplaced == InitReplaced /\ [][NextReplaced]_vars

\* the key is in the replaced table, or is a deprecated key rewritten to one
ReachesReplaced(key) ==
    \/ key \in DOMAIN REPLACED_PARAMETERS
    \/ /\ key \in DOMAIN DEPRECATED_PARAMETERS
       /\ DEPRECATED_PARAMETERS[key] \in DOMAIN REPLACED_PARAMETERS

ReplacedKeyOf(key) ==
    IF key \in DOMAIN DEPRECATED_PARAMETERS THEN DEPRECATED_PARAMETERS[key] ELSE key

\* C11: a keyed access with a key of the replaced table, given directly or
\* reached by rewriting a deprecated key, fails with the unsupported-parameter
\* error that names the key and its replacement, and leaves self._config as it
\* was; a raw mapping holding such a key never gets parsed
C11_ReplacedUnsupported ==
    /\ (access.made /\ ReachesReplaced(access.key)) =>
          /\ access.err = Error("replaced parameter",
                                <<ReplacedKeyOf(access.key),
                                  REPLACED_PARAMETERS[ReplacedKeyOf(access.key)]>>)
          /\ err = access.err
          /\ config = access.before
    /\ (\E k \in DOMAIN local_vars : ReachesReplaced(k)) => pc # "parsed"

\* after a successful __setitem__, get with a deprecated key whose replacement is
\* a replaced key failed
C11_Witness ==
    /\ accesses = 2
    /\ access.made
    /\ access.op = "get"
    /\ access.key = "depr_makeopts"
    /\ access.err.kind = "replaced parameter"
    /\ access.before["configopts"] = Str("--a")
    /\ config["configopts"] = Str("--a")

(***************************************************************************)
(* SpecDeps: dependencies() on stored dependency lists, with and without   *)
(* the filter_deps build option and templating                             *)
(***************************************************************************)
MaxStoredDeps == 2
MaxStoredBuildDeps == 1

\* resolve_template(value, tmpl_dict), lines 855-859, for the values a dependency
\* list holds: a list is rebuilt element by element, a dict value by value
ResolveDepList(deps, tmpl) ==
    [i \in 1..Len(deps) |-> [f \in DOMAIN deps[i] |-> ResolveTemplate(deps[i][f], tmpl).value]]

\* what __getitem__ (lines 648-651) hands out for each dependency list
Templated(cfg, templating, tmpl) ==
    [k \in DOMAIN cfg |->
        IF templating /\ k \in DepListKeys THEN List(ResolveDepList(cfg[k].v, tmpl)) ELSE cfg[k]]

DepNames == {<<"x">>, <<"s">>, <<"%", "(", "s", ")", "s">>}

StoredDep == [name : DepNames, version : {<<"1">>}]

FilterDeps == {<<>>, <<(<<"x">>)>>, <<(<<"s">>), (<<"x">>)>>}

InitDeps ==
    /\ pc = "ready"
    /\ err = NoError
    /\ extra_options = <<>>
    /\ local_vars = <<>>
    /\ mandatory = <<>>
    /\ deprecated_log = NoSignals
    /\ \E plain \in SeqsUpTo(MaxStoredDeps, [i \in 1..MaxStoredDeps |-> StoredDep]),
          build \in SeqsUpTo(MaxStoredBuildDeps, [i \in 1..MaxStoredBuildDeps |-> StoredDep]),
          hid \in SeqsUpTo(MaxStoredBuildDeps, [i \in 1..MaxStoredBuildDeps |-> StoredDep]) :
          config = [DEFAULT_CONFIG EXCEPT !["dependencies"] = List(plain),
                                          !["builddependencies"] = List(build),
                                          !["hiddendependencies"] = List(hid)]
    /\ build_filter_deps \in FilterDeps
    /\ enable_templating \in BOOLEAN
    /\ template_values \in (IF enable_templating THEN TemplateDicts ELSE {<<>>})
    /\ deps_returned = [made |-> FALSE]
    /\ IdleOutsideDeps

DependenciesCall ==
    /\ pc = "ready"
    /\ deps_returned' =
          [made |-> TRUE, before |-> config,
           deps |-> Dependencies(Templated(config, enable_templating, template_values), build_filter_deps)]
    /\ pc' = "done"
    /\ UNCHANGED <<err, ecVars, build_filter_deps, enable_templating, template_values, outsideDeps>>

NextDeps == DependenciesCall

SpecDeps == InitDeps /\ [][NextDeps]_vars

\* plain, then build, then hidden dependencies as the accessor hands them out
AllDeps ==
    Templated(config, enable_templating, template_values)["dependencies"].v
    \o Templated(config, enable_templating, template_values)["builddependencies"].v
    \o Templated(config, enable_templating, template_values)["hiddendependencies"].v

FilteredBefore(all, i) ==
    Cardinality({j \in 1..(i - 1) : all[j].name \in Range(build_filter_deps)})

\* C12: dependencies() returns the plain, then the build, then the hidden
\* dependencies in stored order without exactly the entries whose name is in
\* filter_deps (all of them when no filter is set), does not fail, and leaves the
\* three stored lists as they were
C12_DependenciesFiltered ==
    deps_returned.made =>
        /\ err = NoError
        /\ Len(deps_returned.deps) = Len(AllDeps) - FilteredBefore(AllDeps, Len(AllDeps) + 1)
        /\ \A i \in 1..Len(AllDeps) :
              AllDeps[i].name \notin Range(build_filter_deps) =>
                  deps_returned.deps[i - FilteredBefore(AllDeps, i)] = AllDeps[i]
        /\ build_filter_deps = <<>> => deps_returned.deps = AllDeps
        /\ \A k \in DepListKeys : config[k] = deps_returned.before[k]

\* a filter that removes a build and a hidden dependency and keeps two plain ones
C12_Witness ==
    /\ deps_returned.made
    /\ build_filter_deps = <<(<<"x">>)>>
    /\ Len(config["dependencies"].v) = 2
    /\ config["builddependencies"].v = <<[name |-> <<"x">>, version |-> <<"1">>]>>
    /\ config["hiddendependencies"].v = <<[name |-> <<"x">>, version |-> <<"1">>]>>
    /\ Len(deps_returned.deps) = 2

(***************************************************************************)
(* copy(): EasyConfig instances whose _config is a dict of                 *)
(* [value, help, category] lists; 'version' holds a string, 'dependencies' *)
(* a list                                                                  *)
(***************************************************************************)
NextId(h) == Cardinality(DOMAIN h) + 1

RawVersion == Str("1")
RawDependencies == <<"a">>

\* the parameter values a _config holds
View(h, ref) ==
    [version |-> h[h[ref].slots.version].val,
     dependencies |-> h[h[h[ref].slots.dependencies].at].elems]

\* the objects a _config is made of
ConfigObjects(h, ref) ==
    {ref, h[ref].slots.version, h[ref].slots.dependencies, h[h[ref].slots.dependencies].at}

\* EasyConfig(path, ..., rawtxt=rawtxt), lines 135-172: a _config built from
\* DEFAULT_CONFIG and the raw text
NewConfig(h) ==
    LET n == NextId(h)
    IN  [heap |-> h @@ (n :> [elems |-> RawDependencies])
                    @@ ((n + 1) :> [val |-> None, at |-> n])
                    @@ ((n + 2) :> [val |-> RawVersion, at |-> 0])
                    @@ ((n + 3) :> [slots |-> [version |-> n + 2, dependencies |-> n + 1]]),
         ref |-> n + 3]

\* copy.copy in place of copy.deepcopy: a new dict holding the same lists
MutCopyConfigShallow(h, ref) ==
    [heap |-> h @@ (NextId(h) :> h[ref]), ref |-> NextId(h)]

\* copy.deepcopy(self._config), line 204
DeepCopyConfig(h, ref) ==
    LET n == NextId(h)
        d == h[ref]
    IN  [heap |-> h @@ (n :> h[h[d.slots.dependencies].at])
                    @@ ((n + 1) :> [h[d.slots.dependencies] EXCEPT !.at = n])
                    @@ ((n + 2) :> h[d.slots.version])
                    @@ ((n + 3) :> [slots |-> [version |-> n + 2, dependencies |-> n + 1]]),
         ref |-> n + 3]

\* copy(), lines 197-206: a new instance, its _config replaced
Copy(h, ref) == DeepCopyConfig(NewConfig(h).heap, ref)

(***************************************************************************)
(* SpecCopy: copies of instances that are changed by Set and in place      *)
(***************************************************************************)
MaxInstances == 3
MaxOps == 3

CopyVersions == {"1", "2"}

InitCopy ==
    /\ pc = "ready"
    /\ err = NoError
    /\ objects = NewConfig(<<>>).heap
    /\ ecs = <<[config |-> NewConfig(<<>>).ref,
                expect |-> [version |-> RawVersion, dependencies |-> RawDependencies],
                origin |-> 0, own |-> 0]>>
    /\ ops = 0
    /\ IdleOutsideCopy

CopyCall ==
    /\ Len(ecs) < MaxInstances
    /\ \E i \in DOMAIN ecs :
          \E r \in {Copy(objects, ecs[i].config)} :
              /\ objects' = r.heap
              /\ ecs' = Append(ecs, [config |-> r.ref, expect |-> ecs[i].expect,
                                     origin |-> i, own |-> 0])
    /\ UNCHANGED <<pc, err, ops, outsideCopy>>

\* ec['version'] = v: line 659 assigns element 0 of the stored list
SetVersion ==
    /\ ops < MaxOps
    /\ \E i \in DOMAIN ecs, v \in CopyVersions :
          /\ objects' = [objects EXCEPT ![objects[ecs[i].config].slots.version].val = Str(v)]
          /\ ecs' = [ecs EXCEPT ![i].expect.version = Str(v), ![i].own = @ + 1]
    /\ ops' = ops + 1
    /\ UNCHANGED <<pc, err, outsideCopy>>

\* ec._config['dependencies'][0].append('b'): an edit in place of a stored value
AppendDependency ==
    /\ ops < MaxOps
    /\ \E i \in DOMAIN ecs :
          /\ objects' = [objects EXCEPT
                            ![objects[objects[ecs[i].config].slots.dependencies].at].elems =
                                Append(@, "b")]
          /\ ecs' = [ecs EXCEPT ![i].expect.dependencies = Append(@, "b"), ![i].own = @ + 1]
    /\ ops' = ops + 1
    /\ UNCHANGED <<pc, err, outsideCopy>>

NextCopy == CopyCall \/ SetVersion \/ AppendDependency

SpecCopy == InitCopy /\ [][NextCopy]_vars

\* C14: a copy starts with the parameter values its original had when copied,
\* values changed by Set included, and shares no object with it: each instance
\* holds its values at copy time changed by its own Sets and edits only
C14_CopyIndependent ==
    /\ \A i \in DOMAIN ecs : View(objects, ecs[i].config) = ecs[i].expect
    /\ \A i, j \in DOMAIN ecs : i # j =>
          ConfigObjects(objects, ecs[i].config) \cap ConfigObjects(objects, ecs[j].config) = {}

\* a copy taken after a Set and an edit of the original, the original then Set
\* again: the untouched copy holds the values of copy time
C14_Witness ==
    /\ Len(ecs) = 2
    /\ ecs[2].own = 0
    /\ ecs[2].expect = [version |-> Str("2"), dependencies |-> <<"a", "b">>]
    /\ View(objects, ecs[1].config) = [version |-> Str("1"), dependencies |-> <<"a", "b">>]
    /\ ops = 3

(***************************************************************************)
(* SpecRace: callers of process_easyconfig whose steps interleave. The     *)
(* function takes no lock and keeps no record of a resolution in progress: *)
(* a call is the cache lookup (lines 877-882), the loop over the blocks    *)
(* (lines 884-939) and the store (lines 941-944).                          *)
(***************************************************************************)
MaxCallers == 2
MaxRequests == 3

Callers == 1..MaxCallers

RaceArgs ==
    {[path |-> p, build_specs |-> None, validate |-> TRUE, parse_only |-> FALSE,
      hidden |-> None] : p \in {"one.eb", "two.eb"}}

Outside == [at |-> "outside"]

InitRace ==
    /\ pc = "ready"
    /\ err = NoError
    /\ easyconfigs_cache = <<>>
    /\ heap = <<>>
    /\ returned = <<>>
    /\ calls = 0
    /\ requests = [c \in Callers |-> Outside]
    /\ started = <<>>
    /\ IdleOutsideRace

\* lines 877-882 with the key in the cache: the call returns a deep copy
LookupHit(c) ==
    /\ requests[c] = Outside
    /\ calls < MaxRequests
    /\ \E args \in RaceArgs :
          /\ CacheKey(args) \in DOMAIN easyconfigs_cache
          /\ \E hit \in {DeepCopy(heap, easyconfigs_cache[CacheKey(args)])} :
                /\ heap' = hit.heap
                /\ returned' = Append(returned, [args |-> args, ref |-> hit.ref,
                                                 own |-> NoEdits(hit.heap, hit.ref)])
    /\ calls' = calls + 1
    /\ UNCHANGED <<pc, err, easyconfigs_cache, requests, started, outsideRace>>

\* lines 877-882 with the key not in the cache: the call goes on to the loop
LookupMiss(c) ==
    /\ requests[c] = Outside
    /\ calls < MaxRequests
    /\ \E args \in RaceArgs :
          /\ CacheKey(args) \notin DOMAIN easyconfigs_cache
          /\ requests' = [requests EXCEPT ![c] = [at |-> "loop", args |-> args]]
          /\ started' = Append(started, CacheKey(args))
    /\ calls' = calls + 1
    /\ UNCHANGED <<pc, err, easyconfigs_cache, heap, returned, outsideRace>>

\* lines 884-939
ResolveBlocks(c) ==
    /\ requests[c].at = "loop"
    /\ \E built \in {BuildEasyconfigs(heap, requests[c].args)} :
          /\ heap' = built.heap
          /\ requests' = [requests EXCEPT ![c] = [at |-> "store", args |-> @.args,
                                                  easyconfigs |-> built.ref]]
    /\ UNCHANGED <<pc, err, easyconfigs_cache, returned, calls, started, outsideRace>>

\* lines 941-944
StoreAndReturn(c) ==
    /\ requests[c].at = "store"
    /\ \E stored \in {DeepCopy(heap, requests[c].easyconfigs)} :
          /\ heap' = stored.heap
          /\ easyconfigs_cache' =
                Update(easyconfigs_cache, [k \in {CacheKey(requests[c].args)} |-> stored.ref])
    /\ returned' = Append(returned, [args |-> requests[c].args,
                                     ref |-> requests[c].easyconfigs,
                                     own |-> NoEdits(heap, requests[c].easyconfigs)])
    /\ requests' = [requests EXCEPT ![c] = Outside]
    /\ UNCHANGED <<pc, err, calls, started, outsideRace>>

NextRace ==
    \E c \in Callers : LookupHit(c) \/ LookupMiss(c) \/ ResolveBlocks(c) \/ StoreAndReturn(c)

SpecRace == InitRace /\ [][NextRace]_vars

\* the callers that are between the lookup and the store for this key
InFlight(key) ==
    {c \in Callers : requests[c] # Outside /\ CacheKey(requests[c].args) = key}

\* C15: of the interleaved calls for one cache key with no build specs at most
\* one is resolving at any time, and the loop over the blocks is entered at most
\* once for the key
C15_OneResolutionPerKey ==
    \A args \in RaceArgs :
        /\ Cardinality(InFlight(CacheKey(args))) <= 1
        /\ Cardinality({i \in DOMAIN started : started[i] = CacheKey(args)}) <= 1

(***************************************************************************)
(* SpecMns: callers of ActiveMNS() whose steps interleave. ActiveMNS has   *)
(* the metaclass Singleton (line 992), which keeps the instance of a class *)
(* in the dict _instances under the class (modulestool.py line 101 pops    *)
(* it to have the next call construct again): a call looks the class up,   *)
(* runs __init__ when it is not there, and stores the instance.            *)
(***************************************************************************)
MaxUses == 4

AvailMns == {"EasyBuildMNS"}

SchemeNames == AvailMns \cup {"NoSuchMNS"}

NoUse == [at |-> "outside", got |-> 0]

InitMns ==
    /\ pc = "ready"
    /\ err = NoError
    /\ instances = <<>>
    /\ mns_uses = [c \in Callers |-> NoUse]
    /\ strategies = 0
    /\ sel_mns \in SchemeNames
    /\ uses = 0
    /\ IdleOutsideMns

\* ActiveMNS() with an instance stored: it is returned
UseStored(c) ==
    /\ mns_uses[c].at = "outside"
    /\ uses < MaxUses
    /\ "ActiveMNS" \in DOMAIN instances
    /\ mns_uses' = [mns_uses EXCEPT ![c].got = instances["ActiveMNS"]]
    /\ uses' = uses + 1
    /\ err' = NoError
    /\ UNCHANGED <<pc, instances, strategies, sel_mns, outsideMns>>

\* ActiveMNS() with no instance stored: __init__ is to run
UseFirst(c) ==
    /\ mns_uses[c].at = "outside"
    /\ uses < MaxUses
    /\ "ActiveMNS" \notin DOMAIN instances
    /\ mns_uses' = [mns_uses EXCEPT ![c].at = "init"]
    /\ uses' = uses + 1
    /\ UNCHANGED <<pc, err, instances, strategies, sel_mns, outsideMns>>

\* __init__, lines 994-1005: the selected scheme is constructed, or the call fails
InitActiveMNS(c) ==
    /\ mns_uses[c].at = "init"
    /\ IF sel_mns \in AvailMns
       THEN /\ strategies' = strategies + 1
            /\ mns_uses' = [mns_uses EXCEPT ![c] = [at |-> "store", got |-> @.got,
                                                    made |-> strategies + 1]]
            /\ err' = NoError
       ELSE /\ mns_uses' = [mns_uses EXCEPT ![c].at = "outside"]
            /\ err' = Error("module naming scheme could not be found", sel_mns)
            /\ UNCHANGED strategies
    /\ UNCHANGED <<pc, instances, sel_mns, uses, outsideMns>>

\* the instance is stored under the class and returned
StoreInstance(c) ==
    /\ mns_uses[c].at = "store"
    /\ instances' = Update(instances, [k \in {"ActiveMNS"} |-> mns_uses[c].made])
    /\ mns_uses' = [mns_uses EXCEPT ![c] = [at |-> "outside", got |-> @.made]]
    /\ UNCHANGED <<pc, err, strategies, sel_mns, uses, outsideMns>>

\* the configured scheme name is changed between calls
SetModuleNamingScheme ==
    /\ \E n \in SchemeNames \ {sel_mns} : sel_mns' = n
    /\ UNCHANGED <<pc, err, instances, mns_uses, strategies, uses, outsideMns>>

NextMns ==
    \/ \E c \in Callers : UseStored(c) \/ UseFirst(c) \/ InitActiveMNS(c) \/ StoreInstance(c)
    \/ SetModuleNamingScheme

SpecMns == InitMns /\ [][NextMns]_vars

DetModuleSubdir(mod_subdir) == [ok |-> TRUE, name |-> mod_subdir]

NamingEcs ==
    [name : {"a", "b"}, version : {"", "1"}, versionsuffix : {"", "-x"},
     toolchain : {DummyToolchain, [name |-> "gcc", version |-> "4.8"]}, hidden : BOOLEAN]

\* the subdirectories a scheme may give: '', 'Core', 'Compiler/gcc'
ModuleSubdirs == {<<>>, << <<"Core">> >>, << <<"Compiler">>, <<"gcc">> >>}

InitNaming ==
    /\ pc = "ready"
    /\ err = NoError
    /\ naming_ec \in NamingEcs
    /\ mns_query = [made |-> FALSE]
    /\ IdleOutsideNaming

Queried(method, produced, r) ==
    /\ mns_query' = [made |-> TRUE, method |-> method, produced |-> produced,
                     ok |-> r.ok, returned |-> IF r.ok THEN r.name ELSE <<>>]
    /\ err' = IF r.ok THEN NoError ELSE Error("not a valid module name", produced)
    /\ UNCHANGED <<pc, naming_ec, outsideNaming>>

DetFullModuleNameCall ==
    \E force_visible \in BOOLEAN :
        Queried("det_full_module_name", MnsDetFullModuleName(naming_ec),
                DetFullModuleName(naming_ec, force_visible))

DetShortModuleNameCall ==
    \E force_visible \in BOOLEAN :
        Queried("det_short_module_name", MnsDetShortModuleName(naming_ec),
                DetShortModuleName(naming_ec, force_visible))

DetModuleSubdirCall ==
    \E mod_subdir \in ModuleSubdirs :
        Queried("det_module_subdir", mod_subdir, DetModuleSubdir(mod_subdir))

NextNaming == DetFullModuleNameCall \/ DetShortModuleNameCall \/ DetModuleSubdirCall

SpecNaming == InitNaming /\ [][NextNaming]_vars

\* C17: a naming query returns a name only when what the scheme produced is a
\* valid module name, and fails with the invalid-module-name error otherwise:
\* for the full name, the short name and the module subdirectory alike
C17_NamesValidated ==
    mns_query.made =>
        /\ mns_query.ok <=> IsValidModuleName(mns_query.produced)
        /\ mns_query.ok => IsValidModuleName(mns_query.returned)
        /\ ~mns_query.ok => err.kind = "not a valid module name"

\* the same for the full and the short module name only
C17_FullAndShortValidated ==
    (mns_query.made /\ mns_query.method # "det_module_subdir") =>
        /\ mns_query.ok <=> IsValidModuleName(mns_query.produced)
        /\ mns_query.ok => IsValidModuleName(mns_query.returned)
        /\ ~mns_query.ok => err.kind = "not a valid module name"

(***************************************************************************)
(* _validate: the check of 'moduleclass' and 'stop' against                *)
(* self.validations (lines 166-169, 294-295, 510-518)                      *)
(***************************************************************************)
\* bool(x) for None and for strings
IsTruthy(x) == x # None /\ x # Str("")

\* _validate(attr, values), lines 510-518: the error it raises, or NoError
ValidateAttr(cfg, attr, values) ==
    LET allowed == IF values = None THEN <<>> ELSE values.v
    IN  IF IsTruthy(GetItem(cfg, attr).value) /\ GetItem(cfg, attr).value.v \notin Range(allowed)
        THEN Error("is not valid", <<attr, GetItem(cfg, attr).value, allowed>>)
        ELSE NoError

ModuleClasses == {Str("base"), Str("bio"), Str(""), None}
Stops == {None, Str("build"), Str("nosuch")}

\* build_option('valid_module_classes') and build_option('valid_stops')
ValidModuleClasses == {None, List(<<"base", "bio">>), List(<<"bio">>)}
ValidStops == {None, List(<<"build">>)}

InitValid ==
    /\ pc = "ready"
    /\ err = NoError
    /\ extra_options = <<>>
    /\ local_vars = <<>>
    /\ mandatory = <<>>
    /\ deprecated_log = NoSignals
    /\ \E mc \in ModuleClasses, stop \in Stops :
          config = [DEFAULT_CONFIG EXCEPT !["moduleclass"] = mc, !["stop"] = stop]
    /\ \E vmc \in ValidModuleClasses, vs \in ValidStops :
          validations = [moduleclass |-> vmc, stop |-> vs]
    /\ validated = [made |-> FALSE]
    /\ IdleOutsideValid

\* one round of the loop of lines 294-295
ValidateCall ==
    \E attr \in DOMAIN validations :
        /\ err' = ValidateAttr(config, attr, validations[attr])
        /\ validated' = [made |-> TRUE, attr |-> attr]
        /\ UNCHANGED <<pc, ecVars, validations, outsideValid>>

NextValid == ValidateCall

SpecValid == InitValid /\ [][NextValid]_vars

\* C19: the check of an attribute fails exactly when its value is set and an
\* allowed list is configured that does not hold it; with no list configured it
\* passes for every value
C19_EnumCheck ==
    validated.made =>
        (err # NoError <=>
            /\ IsTruthy(config[validated.attr])
            /\ validations[validated.attr] # None
            /\ config[validated.attr].v \notin Range(validations[validated.attr].v))

(***************************************************************************)
(* SpecIdent: the module names an EasyConfig got at construction (lines    *)
(* 186-195) and Sets of naming parameters afterwards (lines 655-662)       *)
(***************************************************************************)
IdentVersions == {"1", "2", "3"}
IdentSuffixes == {"", "-x"}
IdentNames == {"a", "b"}

\* the parameters the module name is derived from, and the values Set gives them
NamingValues ==
    [name |-> {Str(n) : n \in IdentNames}, version |-> {Str(v) : v \in IdentVersions},
     versionsuffix |-> {Str(x) : x \in IdentSuffixes}]

InitIdent ==
    /\ pc = "ready"
    /\ err = NoError
    /\ extra_options = <<>>
    /\ mandatory = <<>>
    /\ deprecated_log = NoSignals
    /\ \E v \in IdentVersions :
          /\ local_vars = [BaseRawMapping EXCEPT !["version"] = Str(v)]
          /\ config = ConfigAfterParse(DEFAULT_CONFIG, [BaseRawMapping EXCEPT !["version"] = Str(v)])
    /\ ec_hidden \in BOOLEAN
    /\ full_mod_name = DetFullModuleName(EcForNaming(config, ec_hidden), FALSE).name
    /\ short_mod_name = DetShortModuleName(EcForNaming(config, ec_hidden), FALSE).name
    /\ IdleOutsideIdent

\* ec[key] = value for a naming parameter: __setitem__ assigns the stored value
SetNamingParameter ==
    /\ \E key \in DOMAIN NamingValues :
          \E v \in NamingValues[key] :
              \E r \in {SetItem(config, key, v)} :
                  /\ err' = r.err
                  /\ config' = r.config
                  /\ deprecated_log' = Signalled(deprecated_log, Range(r.deprecated))
    /\ UNCHANGED <<pc, extra_options, local_vars, mandatory, identVars, outsideIdent>>

\* ec.hidden = h: an attribute assignment
SetHidden ==
    /\ ec_hidden' \in BOOLEAN \ {ec_hidden}
    /\ UNCHANGED <<pc, err, ecVars, full_mod_name, short_mod_name, outsideIdent>>

NextIdent == SetNamingParameter \/ SetHidden

SpecIdent == InitIdent /\ [][NextIdent]_vars

\* C18: after any Sets of name, version, versionsuffix or the hidden flag the
\* full and the short module name of the EasyConfig are what the naming scheme
\* derives from its current values
C18_IdentityCurrent ==
    /\ full_mod_name = DetFullModuleName(EcForNaming(config, ec_hidden), FALSE).name
    /\ short_mod_name = DetShortModuleName(EcForNaming(config, ec_hidden), FALSE).name

\* the formatting of the string fails on a placeholder whose key the context lacks
MissingKey(str, d) == FormatFrom(Escape(str), d, 1).kind = "KeyError"

\* C20: on a string with a placeholder whose key is absent from the context
\* resolve_template does not raise and returns the string it was given,
\* character for character
C20_MissingKeyReturnsOriginal ==
    (pc = "done" /\ MissingKey(tmpl_value, tmpl_dict)) =>
        (err = NoError /\ resolved = tmpl_value)

\* on a missing key the escaped string is what comes back
C20_MissingKeyReturnsEscaped ==
    (pc = "done" /\ MissingKey(tmpl_value, tmpl_dict)) =>
        (err = NoError /\ resolved = Escape(tmpl_value))

(***************************************************************************)
(* SpecTypos: parse of raw mappings with misspelt, unknown, deprecated and *)
(* replaced keys, with and without the mandatory 'version'                 *)
(***************************************************************************)
TypoRawValue ==
    [Versoin |-> {Str("2")}, Hompage |-> {Str("h")}, foo |-> {Str("bar")},
     makeopts |-> {Str("-j")}, depr_configopts |-> {Str("--b")}]

InitTypos ==
    /\ pc = "new"
    /\ err = NoError
    /\ extra_options = <<>>
    /\ \E opts \in PartialDicts(DOMAIN TypoRawValue, TypoRawValue),
          omitted \in {{}, {"version"}} :
          local_vars = Update([k \in DOMAIN BaseRawMapping \ omitted |-> BaseRawMapping[k]], opts)
    /\ mandatory = <<>>
    /\ config = <<>>
    /\ deprecated_log = NoSignals
    /\ IdleOutsideParse

NextTypos == Construct \/ ParseCall

SpecTypos == InitTypos /\ [][NextTypos]_vars

\* the misspelt keys of the model and the parameter each is close to
CloseMatch == [Versoin |-> "version", Hompage |-> "homepage"]

\* the raw keys that are no parameter, deprecated or replaced key
UnknownRawKeys ==
    DOMAIN local_vars \ (DOMAIN DEFAULT_CONFIG \cup DOMAIN DEPRECATED_PARAMETERS
                         \cup DOMAIN REPLACED_PARAMETERS)

TypoPairs == {<<k, CloseMatch[k]>> : k \in UnknownRawKeys \cap DOMAIN CloseMatch}

\* parse gets as far as the typo check: no mandatory key is missing and no raw
\* key is, or is rewritten to, a replaced key
ReachesTypoCheck ==
    /\ \A k \in Range(MANDATORY_PARAMS) : k \in DOMAIN local_vars
    /\ \A k \in DOMAIN local_vars : ~ReachesReplaced(k)

\* C21, as stated: whenever an unknown raw key has a close match, parse fails
\* with the one error that lists every (raw key, suggested parameter) pair
C21_AsStated ==
    (pc \in {"parsed", "error"} /\ TypoPairs # {}) =>
        (pc = "error" /\ err = Error("typos", TypoPairs))

\* C21: when parse reaches the typo check, it fails with the one error listing
\* every (raw key, suggested parameter) pair if an unknown raw key has a close
\* match; otherwise the unknown raw keys raise nothing and are not stored
C21_TyposBatched ==
    (pc \in {"parsed", "error"} /\ ReachesTypoCheck) =>
        /\ TypoPairs # {} => (pc = "error" /\ err = Error("typos", TypoPairs))
        /\ TypoPairs = {} => /\ pc = "parsed"
                             /\ err = NoError
                             /\ UnknownRawKeys \cap DOMAIN config = {}
                             /\ DOMAIN config = DOMAIN DEFAULT_CONFIG \cup {"parsed"}

\* two misspelt keys and an unknown one: one error with both pairs
C21_Witness ==
    /\ pc = "error"
    /\ err = Error("typos", {<<"Versoin", "version">>, <<"Hompage", "homepage">>})
    /\ "foo" \in DOMAIN local_vars
    /\ ReachesTypoCheck

\* an unknown key without a close match is dropped by a parse that succeeds
C21_WitnessIgnored ==
    /\ pc = "parsed"
    /\ "foo" \in DOMAIN local_vars
    /\ "foo" \notin DOMAIN config

(***************************************************************************)
(* The hidden form of a module name, on the dependencies of SpecFilter     *)
(***************************************************************************)
\* the dependency dicts stored in self._config
StoredDeps ==
    Range(GetItem(config, "dependencies").value.v)
    \cup Range(GetItem(config, "hiddendependencies").value.v)

\* the name is the scheme's name, in its hidden form exactly when the hidden flag
\* is set and force_visible is false
HiddenExactly(r, plain, hidden, force_visible) ==
    r.ok => /\ r.name = IF hidden /\ ~force_visible THEN DetHiddenModname(plain) ELSE plain
            /\ r.name # plain <=> (hidden /\ ~force_visible)

\* C26: det_full_module_name and det_short_module_name return the hidden form of
\* the scheme's name exactly when the hidden flag of the dependency is set and
\* force_visible is false; with force_visible the result for a hidden dependency
\* is the result for the same dependency with the flag cleared, and that is the
\* name filter_hidden_deps looks for among the names of the plain dependencies.
C26_HiddenForm ==
    /\ \A d \in StoredDeps, force_visible \in BOOLEAN :
          /\ HiddenExactly(DetFullModuleName(d, force_visible), MnsDetFullModuleName(d),
                           d.hidden, force_visible)
          /\ HiddenExactly(DetShortModuleName(d, force_visible), MnsDetShortModuleName(d),
                           d.hidden, force_visible)
          /\ DetFullModuleName(d, TRUE) = DetFullModuleName([d EXCEPT !.hidden = FALSE], FALSE)
          /\ DetShortModuleName(d, TRUE) = DetShortModuleName([d EXCEPT !.hidden = FALSE], FALSE)
    /\ pc = "filter_loop" =>
          LET hid == GetItem(config, "hiddendependencies").value.v
              visible(i) == DetFullModuleName([hid[i] EXCEPT !.hidden = FALSE], FALSE).name
              done == 1..(hidden_idx - 1)
          IN  /\ Range(faulty_deps) = {visible(i) : i \in done} \ Range(dep_mod_names)
              /\ \A d \in Range(GetItem(config, "dependencies").value.v), i \in done :
                    d.full_mod_name # visible(i)

\* the loop has removed the dependency that a hidden dependency names
C26_Witness ==
    /\ pc = "filter_loop"
    /\ hidden_idx > 1
    /\ faulty_deps = <<>>
    /\ Len(GetItem(config, "dependencies").value.v) < Len(dep_mod_names)
    /\ GetItem(config, "hiddendependencies").value.v[1].hidden

(***************************************************************************)
(* SpecSteps: EasyConfig.__init__, lines 171-195, one step at a time       *)
(***************************************************************************)
\* the flag of line 179 taken from the argument alone
MutValidationArgOnly(option, arg) == arg

\* line 179: self.validation = build_option('validate') and validate
Validation(option, arg) == option /\ arg

\* lines 166-169: self.validations, from the build options
Validations == [moduleclass |-> List(<<"base", "bio">>), stop |-> List(<<"build">>)]

\* validate(), lines 286-312: the errors it can raise, {} when it returns. The
\* attributes are checked in the order of the dict; the checks of the OS
\* dependencies, of skipsteps and of the license read parameters left out here.
Validate(cfg) ==
    LET invalid == {ValidateAttr(cfg, attr, Validations[attr]) : attr \in DOMAIN Validations}
                   \ {NoError}
    IN  IF invalid # {} THEN invalid ELSE {ValidateIterateOptsLists(cfg)} \ {NoError}

StepRawValue ==
    [dependencies |-> {List(<<List(<<"a", "1">>)>>)},
     hiddendependencies |-> {List(<<List(<<"a", "1">>)>>), List(<<List(<<"b", "1">>)>>)},
     moduleclass |-> {Str("nosuch")},
     configopts |-> {List(<<Str("o"), Str("o")>>)},
     buildopts |-> {List(<<Str("o"), Str("o"), Str("o")>>)},
     versoin |-> {Str("1")}]

StepRawMappings ==
    {Update(BaseRawMapping, opts) : opts \in PartialDicts(DOMAIN StepRawValue, StepRawValue)}

\* lines 101-169 have run: the defaults are in place, nothing is parsed
InitSteps ==
    /\ pc = "init"
    /\ err = NoError
    /\ extra_options = <<>>
    /\ mandatory = MandatoryKeys(<<>>)
    /\ config = ConfigWithExtraOptions(<<>>)
    /\ deprecated_log = NoSignals
    /\ local_vars \in StepRawMappings
    /\ build_validate \in BOOLEAN
    /\ validate_arg \in BOOLEAN
    /\ ec_hidden \in BOOLEAN
    /\ steps = <<>>
    /\ seen_deps = None
    /\ full_mod_name = ""
    /\ short_mod_name = ""
    /\ IdleOutsideSteps

\* lines 172-173: self.parse()
ParseStep ==
    /\ pc = "init"
    /\ \E r \in {Parse(config, mandatory, local_vars)} :
          /\ err' = r.err
          /\ config' = r.config
          /\ pc' = IF r.err = NoError THEN "parsed" ELSE "error"
    /\ steps' = Append(steps, "parse")
    /\ UNCHANGED <<extra_options, local_vars, mandatory, deprecated_log, identVars,
                   build_validate, validate_arg, seen_deps, outsideSteps>>

\* lines 179-181: self.validate(), when self.validation
ValidateStep ==
    /\ pc = "parsed"
    /\ Validation(build_validate, validate_arg)
    /\ seen_deps' = GetItem(config, "dependencies").value
    /\ \/ Validate(config) = {} /\ err' = NoError /\ pc' = "validated"
       \/ err' \in Validate(config) /\ pc' = "error"
    /\ steps' = Append(steps, "validate")
    /\ UNCHANGED <<ecVars, identVars, build_validate, validate_arg, outsideSteps>>

\* line 184: self.filter_hidden_deps()
FilterHiddenDepsStep ==
    /\ \/ pc = "validated"
       \/ pc = "parsed" /\ ~Validation(build_validate, validate_arg)
    /\ \E r \in {FilterHiddenDeps(config)} :
          /\ err' = r.err
          /\ config' = r.config
          /\ pc' = IF r.err = NoError THEN "filtered" ELSE "error"
    /\ steps' = Append(steps, "filter_hidden_deps")
    /\ UNCHANGED <<extra_options, local_vars, mandatory, deprecated_log, identVars,
                   build_validate, validate_arg, seen_deps, outsideSteps>>

\* lines 192-195: the module names of this EasyConfig
NamingStep ==
    /\ pc = "filtered"
    /\ \E full \in {DetFullModuleName(EcForNaming(config, ec_hidden), FALSE)},
          short \in {DetShortModuleName(EcForNaming(config, ec_hidden), FALSE)} :
          IF ~full.ok
          THEN /\ err' = Error("invalid module name", full.name)
               /\ pc' = "error"
               /\ UNCHANGED <<full_mod_name, short_mod_name>>
          ELSE IF ~short.ok
          THEN /\ err' = Error("invalid module name", short.name)
               /\ pc' = "error"
               /\ full_mod_name' = full.name
               /\ UNCHANGED short_mod_name
          ELSE /\ err' = NoError
               /\ pc' = "done"
               /\ full_mod_name' = full.name
               /\ short_mod_name' = short.name
    /\ steps' = Append(steps, "naming")
    /\ UNCHANGED <<ecVars, ec_hidden, build_validate, validate_arg, seen_deps, outsideSteps>>

NextSteps == ParseStep \/ ValidateStep \/ FilterHiddenDepsStep \/ NamingStep

SpecSteps == InitSteps /\ [][NextSteps]_vars

StepOrder == <<"parse", "validate", "filter_hidden_deps", "naming">>

StepPos(s) == CHOOSE i \in DOMAIN StepOrder : StepOrder[i] = s

\* what parse() makes of the raw mapping
ParsedOnce == Parse(ConfigWithExtraOptions(extra_options), mandatory, local_vars)

\* C24: the steps of __init__ run in the order parse, validate, filter_hidden_deps,
\* naming, each at most once; validate runs exactly when build_option('validate')
\* and the 'validate' argument are both true; a step runs only when every step
\* before it returned, so that the names are computed only for an EasyConfig that
\* parsed, passed validation where it applies and has every hidden dependency
\* among its dependencies; validate finds the list of dependencies as parse stored it.
C24_StepsInOrder ==
    /\ \A i, j \in DOMAIN steps : i < j => StepPos(steps[i]) < StepPos(steps[j])
    /\ pc = "init" <=> steps = <<>>
    /\ steps # <<>> => steps[1] = "parse"
    /\ Len(steps) > 1 => ParsedOnce.err = NoError
    /\ "validate" \in Range(steps) => build_validate /\ validate_arg
    /\ "validate" \in Range(steps) =>
          seen_deps = GetItem(ParsedOnce.config, "dependencies").value
    /\ "filter_hidden_deps" \in Range(steps) =>
          IF build_validate /\ validate_arg
          THEN "validate" \in Range(steps) /\ Validate(ParsedOnce.config) = {}
          ELSE "validate" \notin Range(steps)
    /\ "naming" \in Range(steps) =>
          /\ "filter_hidden_deps" \in Range(steps)
          /\ FilterHiddenDeps(ParsedOnce.config).err = NoError
    /\ full_mod_name # "" => "naming" \in Range(steps)
    /\ pc = "error" <=> err # NoError

\* all four steps ran, and the filter removed a dependency validate had seen
C24_Witness ==
    /\ steps = StepOrder
    /\ pc = "done"
    /\ seen_deps # GetItem(config, "dependencies").value
    /\ full_mod_name # ""

(***************************************************************************)
(* SpecEsc: the naming queries of ActiveMNS on a dependency dict or an     *)
(* EasyConfig, up to what they hand to the naming scheme                   *)
(***************************************************************************)
\* requires_full_easyconfig(keys), lines 1007-1009; is_sufficient(keys) of a
\* scheme holds when the keys it needs are among keys
RequiresFullEasyconfig(scheme, keys) ==
    scheme.requires_toolchain_details \/ ~(scheme.required_keys \subseteq keys)

\* the EasyConfig process_easyconfig(eb_file, parse_only=True, hidden=h) gives
\* for the file found for (name, full version)
ParsedEasyConfig(name, fullver, h) ==
    [type |-> "EasyConfig", path |-> <<name, fullver>>, hidden |-> h]

\* check_ec_type(ec), lines 1011-1029: [err, ec]
CheckEcType(scheme, found, ec) ==
    IF ec.type # "EasyConfig" /\ RequiresFullEasyconfig(scheme, DOMAIN ec.v)
    THEN LET fullver == DetFullEcVersion(ec.v.version, ec.v.toolchain, "", ec.v.versionsuffix)
         IN  IF <<ec.v.name, fullver>> \in found
             THEN [err |-> NoError, ec |-> ParsedEasyConfig(ec.v.name, fullver, ec.v.hidden)]
             ELSE [err |-> Error("Failed to find easyconfig file", <<ec.v.name, fullver>>),
                   ec |-> ec]
    ELSE [err |-> NoError, ec |-> ec]

\* the dependency dicts of _parse_dependency at lines 602-603
EscDeps ==
    {[type |-> "dict", v |-> d] :
        d \in [name : {"a", "b"}, version : {"1"}, versionsuffix : {"", "-x"},
               toolchain : {DummyToolchain, [name |-> "gcc", version |-> "4.8"]},
               dummy : {FALSE}, hidden : BOOLEAN]}

EscEasyConfigs == {ParsedEasyConfig("a", <<"1">>, h) : h \in BOOLEAN}

\* the schemes: EasyBuildMNS needs name, version, versionsuffix and toolchain;
\* a hierarchical scheme needs toolchain details; a scheme by module class
\* needs 'moduleclass'
EscSchemes ==
    [requires_toolchain_details : BOOLEAN,
     required_keys : {{"name", "version", "versionsuffix", "toolchain"},
                      {"name", "version", "moduleclass"}}]

EscFiles == {<<"a", <<"1">> >>, <<"a", <<"1", "-x">> >>, <<"b", <<"1", "-", "gcc", "-", "4.8">> >>}

InitEsc ==
    /\ pc = "ready"
    /\ err = NoError
    /\ active_mns \in EscSchemes
    /\ eb_files \in SUBSET EscFiles
    /\ asked_ec \in EscDeps \cup EscEasyConfigs
    /\ mns_call = [made |-> FALSE]
    /\ IdleOutsideEsc

\* a query that hands self.check_ec_type(ec) to the scheme
Escalating(method) ==
    /\ \E r \in {CheckEcType(active_mns, eb_files, asked_ec)} :
          /\ err' = r.err
          /\ mns_call' = IF r.err = NoError
                         THEN [made |-> TRUE, method |-> method, reached |-> TRUE, ec |-> r.ec]
                         ELSE [made |-> TRUE, method |-> method, reached |-> FALSE]
    /\ UNCHANGED <<pc, active_mns, eb_files, asked_ec, outsideEsc>>

\* lines 1047-1048 and 1059-1064
EscDetFullModuleName == Escalating("det_full_module_name")

\* lines 1047-1048 and 1071-1082
EscDetShortModuleName == Escalating("det_short_module_name")

\* lines 1084-1089
EscDetModuleSubdir == Escalating("det_module_subdir")

\* lines 1091-1095: return self.mns.det_module_symlink_paths(ec)
EscDetModuleSymlinkPaths ==
    /\ err' = NoError
    /\ mns_call' = [made |-> TRUE, method |-> "det_module_symlink_paths", reached |-> TRUE,
                    ec |-> asked_ec]
    /\ UNCHANGED <<pc, active_mns, eb_files, asked_ec, outsideEsc>>

\* lines 1097-1102
EscDetModpathExtensions == Escalating("det_modpath_extensions")

\* lines 1104-1109
EscDetInitModulepaths == Escalating("det_init_modulepaths")

NextEsc ==
    \/ EscDetFullModuleName \/ EscDetShortModuleName \/ EscDetModuleSubdir
    \/ EscDetModuleSymlinkPaths \/ EscDetModpathExtensions \/ EscDetInitModulepaths

SpecEsc == InitEsc /\ [][NextEsc]_vars

\* what a query on a dependency dict is to hand to the scheme
EscalatedAsSpecified ==
    LET d == asked_ec.v
        fullver == DetFullEcVersion(d.version, d.toolchain, "", d.versionsuffix)
    IN  IF RequiresFullEasyconfig(active_mns, DOMAIN d)
        THEN IF <<d.name, fullver>> \in eb_files
             THEN /\ mns_call.reached
                  /\ mns_call.ec = ParsedEasyConfig(d.name, fullver, d.hidden)
             ELSE ~mns_call.reached /\ err # NoError
        ELSE mns_call.reached /\ mns_call.ec = asked_ec

\* C25: every naming query on a dependency dict hands the scheme the EasyConfig
\* found and parsed for (name, full version) when the scheme requires a full
\* easyconfig for the keys of the dict, fails when no file is found, and hands
\* over the dict itself when the scheme does not require one.
C25_EveryQueryEscalates ==
    (mns_call.made /\ asked_ec.type = "dict") => EscalatedAsSpecified

\* the same for the five queries that call check_ec_type
C25_QueriesButSymlinkPathsEscalate ==
    (mns_call.made /\ asked_ec.type = "dict" /\ mns_call.method # "det_module_symlink_paths")
        => EscalatedAsSpecified

(***************************************************************************)
(* SpecRecur: process_easyconfig under a naming scheme that requires a     *)
(* full easyconfig for every dependency                                    *)
(***************************************************************************)
MaxEbDeps == 2
MaxDepth == 4

EbNames == {"a", "b"}
EbDepNames == {"a", "b", "c"}

\* the cache key of lines 878-880 for a call with validate=True, hidden=False
EbCacheKey(path, parse_only) == <<path, TRUE, FALSE, parse_only>>

Frame(path, parse_only) == [path |-> path, parse_only |-> parse_only, next_dep |-> 1]

Top == call_stack[Len(call_stack)]

Caller == SubSeq(call_stack, 1, Len(call_stack) - 1)

InitRecur ==
    /\ pc = "ready"
    /\ err = NoError
    /\ \E found \in SUBSET EbNames :
          eb_deps \in [found -> SeqsUpTo(MaxEbDeps, [i \in 1..MaxEbDeps |-> EbDepNames])]
    /\ call_stack = <<>>
    /\ ec_keys = {}
    /\ IdleOutsideRecur

\* process_easyconfig(path) is called for a file that exists
ProcessCall ==
    /\ pc = "ready"
    /\ \E path \in DOMAIN eb_deps :
          IF EbCacheKey(path, FALSE) \in ec_keys
          THEN UNCHANGED call_stack /\ pc' = "done"
          ELSE call_stack' = <<Frame(path, FALSE)>> /\ pc' = "processing"
    /\ UNCHANGED <<err, eb_deps, ec_keys, outsideRecur>>

\* lines 602-603 within EasyConfig(spec) of line 891: the name of the next
\* dependency; check_ec_type (lines 1011-1029) finds its file and calls
\* process_easyconfig(eb_file, parse_only=True, hidden=...), or fails
Escalate ==
    /\ pc = "processing"
    /\ Top.next_dep <= Len(eb_deps[Top.path])
    /\ LET name == eb_deps[Top.path][Top.next_dep]
       IN  IF name \notin DOMAIN eb_deps
           THEN /\ err' = Error("Failed to find easyconfig file", name)
                /\ pc' = "error"
                /\ call_stack' = <<>>
           ELSE IF EbCacheKey(name, TRUE) \in ec_keys
           THEN /\ call_stack' = [call_stack EXCEPT ![Len(call_stack)].next_dep = @ + 1]
                /\ UNCHANGED <<pc, err>>
           ELSE IF Len(call_stack) >= MaxDepth
           THEN /\ err' = Error("maximum recursion depth exceeded", name)
                /\ pc' = "error"
                /\ call_stack' = <<>>
           ELSE /\ call_stack' = Append(call_stack, Frame(name, TRUE))
                /\ UNCHANGED <<pc, err>>
    /\ UNCHANGED <<eb_deps, ec_keys, outsideRecur>>

\* lines 941-944: every dependency is named; the result is stored and returned
StoreAndReturnEasyconfigs ==
    /\ pc = "processing"
    /\ Top.next_dep > Len(eb_deps[Top.path])
    /\ ec_keys' = ec_keys \cup {EbCacheKey(Top.path, Top.parse_only)}
    /\ IF Caller = <<>>
       THEN call_stack' = <<>> /\ pc' = "ready"
       ELSE /\ call_stack' = [Caller EXCEPT ![Len(Caller)].next_dep = @ + 1]
            /\ UNCHANGED pc
    /\ UNCHANGED <<err, eb_deps, outsideRecur>>

NextRecur == ProcessCall \/ Escalate \/ StoreAndReturnEasyconfigs

SpecRecur == InitRecur /\ [][NextRecur]_vars

\* C27: a process_easyconfig call for a file is never begun while a call for the
\* same file is in progress, so that the calls end for every finite set of files,
\* files that name each other as dependencies included.
C27_NoRestartInProgress ==
    \A i, j \in DOMAIN call_stack : i < j => call_stack[i].path # call_stack[j].path

(***************************************************************************)
(* SpecSet: __getitem__, __setitem__, get and generate_template_values on  *)
(* self._config, each parameter a list [value, help, category]             *)
(***************************************************************************)
\* an unknown key is stored as a new parameter
MutSetItemSlotAddsUnknown(cfg, key, value) ==
    LET h == HandleDeprecatedOrReplaced(key)
    IN  IF h.err # NoError THEN Raised(h.err, cfg, h.deprecated)
        ELSE Returned(None, (h.key :> <<value, "", CUSTOM>>) @@ cfg, h.deprecated)

\* __setitem__, lines 655-662: self._config[key][0] = value
SetItemSlot(cfg, key, value) ==
    LET h == HandleDeprecatedOrReplaced(key)
    IN  IF h.err # NoError THEN Raised(h.err, cfg, h.deprecated)
        ELSE IF h.key \in DOMAIN cfg
        THEN Returned(None, [cfg EXCEPT ![h.key][1] = value], h.deprecated)
        ELSE Raised(Error("unknown parameter when setting", <<h.key, value>>), cfg, h.deprecated)

\* template_constant_dict for the parameters of this model: the name, under
\* the key 'name'
TemplateConstantDict(cfg) == (<<"name">> :> cfg["name"][1].v)

\* generate_template_values, lines 607-632: the dict is created when it is None
\* and updated with the template constants of the parameters as they are now
GenerateTemplateValues(cfg, tmpl) ==
    Dict(TemplateConstantDict(cfg) @@ (IF tmpl = None THEN <<>> ELSE tmpl.v))

\* __getitem__, lines 639-653: [err, value, template_values]
GetItemSlot(cfg, key, templating, tmpl) ==
    LET h == HandleDeprecatedOrReplaced(key)
        generated == IF tmpl = None \/ tmpl.v = <<>> THEN GenerateTemplateValues(cfg, tmpl)
                     ELSE tmpl
        resolved_value == ResolveTemplate(cfg[h.key][1].v, generated.v)
    IN  IF h.err # NoError THEN [err |-> h.err, value |-> None, template_values |-> tmpl]
        ELSE IF h.key \notin DOMAIN cfg
        THEN [err |-> Error("unknown parameter when getting", h.key), value |-> None,
              template_values |-> tmpl]
        ELSE IF templating
        THEN [err |-> resolved_value.err,
              value |-> IF resolved_value.err = NoError THEN Str(resolved_value.value) ELSE None,
              template_values |-> generated]
        ELSE [err |-> NoError, value |-> cfg[h.key][1], template_values |-> tmpl]

\* get, lines 664-672
GetSlot(cfg, key, default, templating, tmpl) ==
    LET h == HandleDeprecatedOrReplaced(key)
    IN  IF h.err # NoError THEN [err |-> h.err, value |-> None, template_values |-> tmpl]
        ELSE IF h.key \in DOMAIN cfg THEN GetItemSlot(cfg, h.key, templating, tmpl)
        ELSE [err |-> NoError, value |-> default, template_values |-> tmpl]

SetKeys == {"name", "configopts", "depr_configopts", "makeopts", "nosuch"}
SetValues == {Str(<<"x">>), Str(<<"s">>), Str(<<"%", "(", "name", ")", "s">>)}

InitSet ==
    /\ pc = "ready"
    /\ err = NoError
    /\ slots = [name |-> <<Str(<<"x">>), "Name of software", MANDATORY>>,
                configopts |-> <<Str(<<"%", "(", "name", ")", "s">>), "Extra options", CUSTOM>>]
    /\ enable_templating \in BOOLEAN
    /\ template_values = None
    /\ ec_hidden \in BOOLEAN
    /\ full_mod_name = << <<"x">>, <<"1">> >>
    /\ short_mod_name = << <<"x">>, <<"1">> >>
    /\ set_call = [made |-> FALSE]
    /\ IdleOutsideSet

\* ec[key] = value
SetItemSlotCall ==
    /\ \E key \in SetKeys, value \in SetValues :
          \E r \in {SetItemSlot(slots, key, value)} :
              /\ err' = r.err
              /\ slots' = r.config
              /\ set_call' = [made |-> TRUE, op |-> "__setitem__", key |-> key, arg |-> value,
                              value |-> None]
    /\ UNCHANGED <<pc, enable_templating, template_values, identVars, outsideSet>>

\* ec[key]
GetItemSlotCall ==
    /\ \E key \in SetKeys :
          \E r \in {GetItemSlot(slots, key, enable_templating, template_values)} :
              /\ err' = r.err
              /\ template_values' = r.template_values
              /\ set_call' = [made |-> TRUE, op |-> "__getitem__", key |-> key, arg |-> None,
                              value |-> r.value]
    /\ UNCHANGED <<pc, slots, enable_templating, identVars, outsideSet>>

\* ec.get(key, default)
GetSlotCall ==
    /\ \E key \in SetKeys, default \in {None, Str(<<"s">>)} :
          \E r \in {GetSlot(slots, key, default, enable_templating, template_values)} :
              /\ err' = r.err
              /\ template_values' = r.template_values
              /\ set_call' = [made |-> TRUE, op |-> "get", key |-> key, arg |-> default,
                              value |-> r.value]
    /\ UNCHANGED <<pc, slots, enable_templating, identVars, outsideSet>>

\* ec.generate_template_values()
GenerateTemplateValuesCall ==
    /\ template_values' = GenerateTemplateValues(slots, template_values)
    /\ set_call' = [made |-> TRUE, op |-> "generate_template_values"]
    /\ UNCHANGED <<pc, err, slots, enable_templating, identVars, outsideSet>>

NextSet == SetItemSlotCall \/ GetItemSlotCall \/ GetSlotCall \/ GenerateTemplateValuesCall

SpecSet == InitSet /\ [][NextSet]_vars

\* a key that is no parameter, and neither deprecated nor replaced
UnknownKey(key) ==
    key \notin DOMAIN slots \cup DOMAIN DEPRECATED_PARAMETERS \cup DOMAIN REPLACED_PARAMETERS

\* C30: ec[k] = v for a parameter k puts v in the value of k and leaves the help
\* text and the category of k, every other parameter, the set of parameters,
\* self.template_values and the stored module names as they were; ec[k] = v for
\* an unknown k raises and changes nothing; ec.get(k, default) for an unknown k
\* returns default, raises nothing and changes nothing; ec[k] resolves against
\* the template values generated earlier, whatever was set since.
C30_SetChangesOneSlot ==
    [][set_call' # set_call =>
          /\ (set_call'.op = "__setitem__" /\ set_call'.key \in DOMAIN slots) =>
                /\ err' = NoError
                /\ DOMAIN slots' = DOMAIN slots
                /\ slots'[set_call'.key] = <<set_call'.arg, slots[set_call'.key][2],
                                             slots[set_call'.key][3]>>
                /\ \A k \in DOMAIN slots \ {set_call'.key} : slots'[k] = slots[k]
                /\ template_values' = template_values
                /\ <<ec_hidden, full_mod_name, short_mod_name>>' =
                      <<ec_hidden, full_mod_name, short_mod_name>>
          /\ (set_call'.op = "__setitem__" /\ UnknownKey(set_call'.key)) =>
                /\ err' # NoError
                /\ slots' = slots
                /\ template_values' = template_values
                /\ <<ec_hidden, full_mod_name, short_mod_name>>' =
                      <<ec_hidden, full_mod_name, short_mod_name>>
          /\ (set_call'.op = "get" /\ UnknownKey(set_call'.key)) =>
                /\ err' = NoError
                /\ set_call'.value = set_call'.arg
                /\ slots' = slots
                /\ template_values' = template_values
          /\ (set_call'.op = "__getitem__" /\ set_call'.key \in DOMAIN slots
              /\ enable_templating /\ template_values # None) =>
                /\ template_values' = template_values
                /\ err' = NoError =>
                      set_call'.value = Str(ResolveTemplate(slots[set_call'.key][1].v,
                                                            template_values.v).value)]_vars

\* after the name was set to another value, the placeholder of configopts still
\* gives the name the template values were generated with
C30_Witness ==
    /\ set_call.made /\ set_call.op = "__getitem__" /\ set_call.key = "configopts"
    /\ err = NoError
    /\ slots["name"][1] = Str(<<"s">>)
    /\ slots["configopts"][1] = Str(<<"%", "(", "name", ")", "s">>)
    /\ set_call.value = Str(<<"x">>)
    /\ template_values # None

====
